---- MODULE Spec2Model ----
(***************************************************************************)
(* Model of the animation sequencer and the controller/blend codec of      *)
(* StudioModelEntity (src/tools/hlam/entity/StudioModelEntity.cpp).        *)
(*                                                                         *)
(* Real-valued quantities are kept on an exact grid:                       *)
(*   - frames (_frame, _lastEventCheck, increments) are integers counting  *)
(*     1/FrameScale of a frame;                                            *)
(*   - times (the world clock, _animTime, deltaTime, maximum) are integers *)
(*     counting 1/FrameScale of a second, so that                          *)
(*     deltaTime * FPS * _frameRate is a whole number of frame units;      *)
(*   - controller and blend values are whole degrees/units.                *)
(* A float-to-int cast (int)(a / b) is truncation toward zero (TruncDiv).  *)
(***************************************************************************)
EXTENDS Integers, Sequences, FiniteSets, TLC

----------------------------------------------------------------------------
(* Bounds of the model *)

\* resolution of the frame/time grid: units per frame and per second
FrameScale == 2
\* largest explicit deltaTime handed to AdvanceFrame, in time units
MaxDelta == 2
\* largest maximum handed to AdvanceFrame, in time units
MaxMaximum == 1
\* the world clock runs from 0 to MaxTime time units
MaxTime == 1
\* SetSequence is tried with every index in -2 .. NumSequences + SeqSlack - 1
SeqSlack == 1
\* SetFrame is tried with every whole frame in -2 .. MaxSetFrame
MaxSetFrame == 5
\* total frame units a playback run of SpecPlay may advance
MaxPlayed == 20
\* largest handled-count a playback run of SpecPlay may reach for one event
MaxFired == 3
MaxDraws == 2

----------------------------------------------------------------------------
(* Program constants *)

\* first event id that is client-only
EVENT_CLIENT == 5000
\* "no maximum" argument of AdvanceFrame, "no change" argument of SetFrame
NoMaximum == -1
NoFrame == -1
\* _sequence value meaning "no sequence"
NoSequence == -1
\* _editableModel == nullptr
NullModel == 0
\* controller channels 0 .. STUDIO_MAX_CONTROLLERS - 1, then the mouth channel
STUDIO_MAX_CONTROLLERS == 4
STUDIO_MOUTH_CONTROLLER == 4
\* blend channels 0 .. STUDIO_MAX_BLENDERS - 1
STUDIO_MAX_BLENDERS == 2
\* largest encoded controller / blend setting, largest encoded mouth setting
MaxSetting == 255
MaxMouthSetting == 64

Min(a, b) == IF a < b THEN a ELSE b
Max(a, b) == IF a > b THEN a ELSE b
Abs(a) == IF a < 0 THEN -a ELSE a

\* (int)(a / b) for real a / b, b # 0: the quotient truncated toward zero
TruncDiv(a, b) ==
    IF (a >= 0) = (b > 0) THEN Abs(a) \div Abs(b) ELSE -(Abs(a) \div Abs(b))

----------------------------------------------------------------------------
(* Model data: immutable after load *)

Event(frame, id) == [Frame |-> frame, EventId |-> id]

\* BlendData / BoneController Type: "none" is Type == 0, "rot" has one of
\* STUDIO_XR | STUDIO_YR | STUDIO_ZR set, "lin" is any other non-zero type.
Blend(type, start, end) == [Type |-> type, Start |-> start, End |-> end]
NoBlend == Blend("none", 0, 0)

SeqLoopShort ==
    [NumFrames |-> 5, FPS |-> 1, Looping |-> TRUE,
     SortedEvents |-> << Event(0, 1001), Event(1, 5001), Event(3, 1003) >>,
     BlendData |-> << Blend("rot", -45, 45), NoBlend >>]

SeqOnce ==
    [NumFrames |-> 4, FPS |-> 2, Looping |-> FALSE,
     SortedEvents |-> << Event(0, 2001), Event(1, 5004), Event(1, 2002),
                         Event(2, 5002), Event(3, 2003) >>,
     BlendData |-> << Blend("lin", 0, 100), Blend("rot", 90, 0) >>]

SeqSingle ==
    [NumFrames |-> 1, FPS |-> 1, Looping |-> TRUE,
     SortedEvents |-> << Event(0, 3001), Event(1, 3002) >>,
     BlendData |-> << NoBlend, NoBlend >>]

\* a looping sequence without frames (NumFrames is read from the model file)
SeqEmpty ==
    [NumFrames |-> 0, FPS |-> 1, Looping |-> TRUE,
     SortedEvents |-> << Event(0, 4001), Event(0, 5005), Event(1, 4002),
                         Event(2, 4003) >>,
     BlendData |-> << NoBlend, NoBlend >>]

\* a sequence of one frame that does not loop; its first blend channel has a
\* wrapping range (Start + 359 < End)
SeqStill ==
    [NumFrames |-> 1, FPS |-> 2, Looping |-> FALSE,
     SortedEvents |-> << Event(0, 4101), Event(1, 4102) >>,
     BlendData |-> << Blend("rot", 0, 720), NoBlend >>]

BoneController(index, type, start, end) ==
    [Index |-> index, Type |-> type, Start |-> start, End |-> end]

SeqPlain ==
    [NumFrames |-> 2, FPS |-> 1, Looping |-> FALSE,
     SortedEvents |-> << >>,
     BlendData |-> << NoBlend, NoBlend >>]

\* the sequence of the wrap scenario: 30 frames at 30 frames per second
SeqThirty ==
    [NumFrames |-> 30, FPS |-> 30, Looping |-> TRUE,
     SortedEvents |-> << >>,
     BlendData |-> << NoBlend, NoBlend >>]

\* model 1 has the animated sequences and no bone controller; models 2 to 5
\* have one plain sequence and differ in their bone controllers; model 6 has
\* the sequences of at most one frame and a bone controller with a wrapping
\* range; the last model has the 30-frame sequence
Models ==
    << [Sequences |-> << SeqLoopShort, SeqOnce, SeqSingle >>,
        BoneControllers |-> << >>],
       [Sequences |-> << SeqPlain >>,
        BoneControllers |-> << BoneController(0, "rot", 0, 90),
                               BoneController(0, "lin", -10, 10),
                               BoneController(STUDIO_MOUTH_CONTROLLER, "rot", 0, 45) >>],
       [Sequences |-> << SeqPlain >>,
        BoneControllers |-> << BoneController(1, "rot", 30, -30),
                               BoneController(STUDIO_MOUTH_CONTROLLER, "lin", 0, 64) >>],
       [Sequences |-> << SeqPlain >>,
        BoneControllers |-> << BoneController(2, "lin", 100, 0),
                               BoneController(3, "rot", 0, 360) >>],
       [Sequences |-> << SeqPlain >>,
        BoneControllers |-> << BoneController(3, "rot", -180, 180),
                               BoneController(STUDIO_MOUTH_CONTROLLER, "rot", 20, -20) >>],
       [Sequences |-> << SeqEmpty, SeqStill >>,
        BoneControllers |-> << BoneController(0, "rot", 0, 720) >>],
       [Sequences |-> << SeqThirty >>,
        BoneControllers |-> << >>] >>

VARIABLES
    _editableModel,   \* NullModel or an index into Models
    _sequence,        \* current sequence index, -1 = none (0-based as in the code)
    _frame,           \* current frame, in frame units
    _lastEventCheck,  \* event-scan marker, in frame units
    _animTime,        \* clock value of the last update, in time units
    _loopingMode,     \* "AlwaysLoop" | "NeverLoop" | "UseSequenceSetting"
    _frameRate,       \* playback rate
    time,             \* the world clock (GetContext()->Time->GetTime())
    call,             \* history: the last operation, its arguments, the state before
    handled,          \* history: events passed to HandleAnimEvent by the last call
    played,           \* history: frame units advanced since the last SetSequence
    fired,            \* history: per event, how often it was handled since then
    awaiting,         \* history: an AdvanceFrame has not been followed by a dispatch
    pc,               \* "idle", or "loop" inside the while loop of DispatchAnimEvents
    dispatchIndex,    \* the local index of DispatchAnimEvents inside its loop
    _controller,      \* encoded byte per controller channel
    _controllerValues,\* real value per controller channel
    _mouth,           \* encoded mouth setting
    _mouthValue,      \* real mouth value
    _blending,        \* encoded byte per blend channel
    _blendingValues,  \* real value per blend channel
    _modelsDrawnCount,   \* renderer: the draw generation
    _drawnPolygonsCount, \* renderer: polygons drawn since Initialize
    _studioModel,        \* renderer: NullModel or an index into StudioModels
    _bonetransform,      \* renderer: the transforms of the last SetUpBones
    _viewerOrigin,       \* renderer: origin of the viewer
    _viewerRight,        \* renderer: right vector of the viewer
    _chromeage,          \* renderer: per bone, the generation of its chrome basis
    _chromeup,           \* renderer: per bone, the chrome up vector
    _chromeright,        \* renderer: per bone, the chrome right vector
    rcall,               \* history: the last renderer operation
    chromeLog,           \* history: the last two Chrome calls of this generation
    drawn,               \* history: the mesh orders the last DrawModel handed to DrawMeshes
    drawCalls,           \* history: DrawModel calls that drew a model
    basisFrom,           \* history: per bone, the draw call that computed its basis
    _lightvec,           \* renderer: the direction of the light
    primitives,          \* history: the glBegin .. glEnd runs of the last DrawModel
    drawInfo,            \* history: the arguments of the last DrawModel that drew
    _initializeCount,    \* scene: Initialize calls not yet matched by a Shutdown
    rendererRuns,        \* history: renderer Initialize runs minus renderer Shutdown runs
    _assetTabs,          \* window: the assets of the open tabs, in tab order
    _undoGroup,          \* window: the assets whose undo stack is in the undo group
    assets,              \* window: the assets that exist (loaded and not deleted)
    clean,               \* window: per asset, whether its undo stack is clean
    event,               \* window: "none", or what closeEvent did to its event
    wcall                \* history: the last window operation and its inputs

seqVars == << _editableModel, _sequence, _frame, _lastEventCheck, _animTime,
              _loopingMode, _frameRate, time, call, handled >>

playVars == << played, fired, awaiting >>

loopVars == << pc, dispatchIndex >>

codecVars == << _controller, _controllerValues, _mouth, _mouthValue,
                _blending, _blendingValues >>

renderVars == << _modelsDrawnCount, _drawnPolygonsCount, _studioModel, _bonetransform,
                 _viewerOrigin, _viewerRight, _chromeage, _chromeup, _chromeright,
                 rcall, chromeLog, drawn, drawCalls, basisFrom,
                 _lightvec, primitives, drawInfo >>

sceneVars == << _initializeCount, rendererRuns >>

windowVars == << _assetTabs, _undoGroup, assets, clean, event, wcall >>

appVars == << sceneVars, windowVars >>

vars == << seqVars, playVars, loopVars, codecVars, renderVars, appVars >>

----------------------------------------------------------------------------
(* Accessors *)

NumSequences == IF _editableModel = NullModel THEN 0
                ELSE Len(Models[_editableModel].Sequences)

\* _sequence < 0 || _sequence >= Sequences.size() is false
HasValidSequence == _sequence >= 0 /\ _sequence < NumSequences

\* *_editableModel->Sequences[_sequence] (the code's index is 0-based)
SequenceDescriptor == Models[_editableModel].Sequences[_sequence + 1]

\* a whole frame number (NumFrames - 1, an event's Frame) in frame units
ToUnits(f) == f * FrameScale

LastFrame(seq) == ToUnits(seq.NumFrames - 1)

\* the history of a call: its name, its argument (AdvanceFrame: the increment
\* it computed), whether it got past its early returns, the state before it
Call(op, arg, ran) ==
    [op |-> op, arg |-> arg, ran |-> ran,
     sequence |-> _sequence, frame |-> _frame,
     lastEventCheck |-> _lastEventCheck, animTime |-> _animTime,
     channel |-> 0, byte |-> 0, value |-> 0]

\* the history of a codec call: also the channel it addresses and the
\* encoded byte and real value stored for that channel before it; the
\* argument is kept only of a call that got past its early returns
CodecCall(op, channel, arg, ran, byte, value) ==
    [op |-> op, arg |-> IF ran THEN arg ELSE 0, ran |-> ran,
     sequence |-> _sequence, frame |-> _frame,
     lastEventCheck |-> _lastEventCheck, animTime |-> _animTime,
     channel |-> channel, byte |-> byte, value |-> value]

----------------------------------------------------------------------------
(* AdvanceFrame *)

ShouldLoop(seq) ==
    CASE _loopingMode = "NeverLoop" -> FALSE
      [] _loopingMode = "UseSequenceSetting" -> seq.Looping
      [] OTHER -> TRUE

\* deltaTime == 0: measure the time since the last update; at most 0.001 s
\* (less than one time unit) elapsed returns without touching anything
AdvanceReturnsEarly(deltaTime) == deltaTime = 0 /\ time - _animTime <= 0

\* takes the first update like any other one
ClampedDeltaEveryUpdate(deltaTime, maximum) ==
    LET elapsed == IF deltaTime = 0 THEN time - _animTime ELSE deltaTime
    IN  IF maximum # NoMaximum THEN Min(elapsed, maximum) ELSE elapsed

ClampedDelta(deltaTime, maximum) ==
    LET elapsed == IF deltaTime = 0 THEN time - _animTime ELSE deltaTime
        first   == IF _animTime = 0 THEN 0 ELSE elapsed
    IN  IF maximum # NoMaximum THEN Min(first, maximum) ELSE first

Increment(deltaTime, seq) == deltaTime * seq.FPS * _frameRate

\* wraps by NumFrames instead of NumFrames - 1
WrapFrameByNumFrames(frame, seq) ==
    frame - TruncDiv(frame, ToUnits(seq.NumFrames)) * ToUnits(seq.NumFrames)

\* starts again at frame 0 instead of carrying the excess over
WrapFrameToStart(frame, seq) ==
    IF frame >= LastFrame(seq) THEN 0 ELSE frame

\* _frame -= (int)(_frame / (NumFrames - 1)) * (NumFrames - 1)
WrapFrame(frame, seq) ==
    frame - TruncDiv(frame, LastFrame(seq)) * LastFrame(seq)

\* clamps to NumFrames instead of NumFrames - 1
ClampFrameToNumFrames(frame, seq) ==
    IF frame >= ToUnits(seq.NumFrames) THEN ToUnits(seq.NumFrames) ELSE frame

\* clamp frame to the last valid frame index
ClampFrame(frame, seq) ==
    IF frame >= LastFrame(seq) THEN LastFrame(seq) ELSE frame

AdvancedFrame(frame, increment, seq) ==
    LET moved == IF frame < LastFrame(seq) \/ ShouldLoop(seq)
                 THEN frame + increment ELSE frame
    IN  IF seq.NumFrames <= 1 THEN 0
        ELSE IF ShouldLoop(seq) THEN WrapFrame(moved, seq)
        ELSE ClampFrame(moved, seq)

\* sets the marker whenever the advanced frame passed the last frame
WrapMarkerOnPass(oldFrame, newFrame, increment, seq) ==
    IF seq.NumFrames > 1 /\ oldFrame + increment >= LastFrame(seq)
    THEN newFrame - increment ELSE _lastEventCheck

\* the marker after the wrap check of AdvanceFrame
WrapMarker(oldFrame, newFrame, increment, seq) ==
    IF seq.NumFrames > 1 /\ oldFrame > newFrame
    THEN newFrame - increment ELSE _lastEventCheck

AdvanceFrameRuns(deltaTime) ==
    /\ _editableModel # NullModel
    /\ HasValidSequence
    /\ ~AdvanceReturnsEarly(deltaTime)

AdvanceFrameStep(deltaTime, maximum) ==
    IF AdvanceFrameRuns(deltaTime)
    THEN LET seq       == SequenceDescriptor
             increment == Increment(ClampedDelta(deltaTime, maximum), seq)
             newFrame  == AdvancedFrame(_frame, increment, seq)
         IN  /\ _frame' = newFrame
             /\ _lastEventCheck' = WrapMarker(_frame, newFrame, increment, seq)
             /\ _animTime' = time
    ELSE UNCHANGED << _frame, _lastEventCheck, _animTime >>

AdvanceFrame(deltaTime, maximum) ==
    /\ AdvanceFrameStep(deltaTime, maximum)
    /\ call' = Call("AdvanceFrame",
                    IF AdvanceFrameRuns(deltaTime)
                    THEN Increment(ClampedDelta(deltaTime, maximum), SequenceDescriptor)
                    ELSE 0,
                    AdvanceFrameRuns(deltaTime))
    /\ handled' = << >>
    /\ UNCHANGED << _editableModel, _sequence, _loopingMode, _frameRate, time >>

----------------------------------------------------------------------------
(* GetAnimationEvent, DispatchAnimEvents *)

IsClientEvent(candidate) == candidate.EventId >= EVENT_CLIENT

\* the window closed at its end: candidate.Frame <= end
InWindowClosedEnd(candidate, start, end, seq) ==
    \/ ToUnits(candidate.Frame) >= start /\ ToUnits(candidate.Frame) <= end
    \/ /\ seq.Looping
       /\ end >= LastFrame(seq)
       /\ ToUnits(candidate.Frame) < end - ToUnits(seq.NumFrames) + ToUnits(1)

\* the window open at its start: candidate.Frame > start
InWindowOpenStart(candidate, start, end, seq) ==
    \/ ToUnits(candidate.Frame) > start /\ ToUnits(candidate.Frame) < end
    \/ /\ seq.Looping
       /\ end >= LastFrame(seq)
       /\ ToUnits(candidate.Frame) < end - ToUnits(seq.NumFrames) + ToUnits(1)

\* the test that selects a candidate for the window [start, end)
InWindow(candidate, start, end, seq) ==
    \/ ToUnits(candidate.Frame) >= start /\ ToUnits(candidate.Frame) < end
    \/ /\ seq.Looping
       /\ end >= LastFrame(seq)
       /\ ToUnits(candidate.Frame) < end - ToUnits(seq.NumFrames) + ToUnits(1)

\* a client event ends the scan (break) instead of being skipped (continue)
RECURSIVE ScanEventsStopAtClient(_, _, _, _, _)
ScanEventsStopAtClient(seq, start, end, index, allowClientEvents) ==
    IF index >= Len(seq.SortedEvents) THEN 0
    ELSE LET candidate == seq.SortedEvents[index + 1]
         IN  IF ~allowClientEvents /\ IsClientEvent(candidate)
             THEN 0
             ELSE IF InWindow(candidate, start, end, seq)
             THEN index + 1
             ELSE ScanEventsStopAtClient(seq, start, end, index + 1, allowClientEvents)

\* the for loop of GetAnimationEvent from the 0-based index: the 1-based
\* position of the first selected event (the code's index + 1), or 0
RECURSIVE ScanEvents(_, _, _, _, _)
ScanEvents(seq, start, end, index, allowClientEvents) ==
    IF index >= Len(seq.SortedEvents) THEN 0
    ELSE LET candidate == seq.SortedEvents[index + 1]
         IN  IF ~allowClientEvents /\ IsClientEvent(candidate)
             THEN ScanEvents(seq, start, end, index + 1, allowClientEvents)
             ELSE IF InWindow(candidate, start, end, seq)
             THEN index + 1
             ELSE ScanEvents(seq, start, end, index + 1, allowClientEvents)

\* scans from the start of the list instead of from the index given
GetAnimationEventFromStart(start, end, index, allowClientEvents) ==
    IF _editableModel = NullModel \/ ~HasValidSequence THEN 0
    ELSE LET seq    == SequenceDescriptor
             single == seq.NumFrames <= 1
         IN  IF index >= Len(seq.SortedEvents) THEN 0
             ELSE ScanEvents(seq,
                             IF single THEN 0 ELSE start,
                             IF single THEN ToUnits(1) ELSE end,
                             0, allowClientEvents)

GetAnimationEvent(start, end, index, allowClientEvents) ==
    IF _editableModel = NullModel \/ ~HasValidSequence THEN 0
    ELSE LET seq    == SequenceDescriptor
             single == seq.NumFrames <= 1
         IN  IF index >= Len(seq.SortedEvents) THEN 0
             ELSE ScanEvents(seq,
                             IF single THEN 0 ELSE start,
                             IF single THEN ToUnits(1) ELSE end,
                             index, allowClientEvents)

\* the while loop of DispatchAnimEvents: the events handed to HandleAnimEvent,
\* as 1-based positions in SortedEvents, in the order they are handed over
RECURSIVE DispatchLoop(_, _, _, _)
DispatchLoop(start, end, index, allowClientEvents) ==
    LET next == GetAnimationEvent(start, end, index, allowClientEvents)
    IN  IF next = 0 THEN << >>
        ELSE << next >> \o DispatchLoop(start, end, next, allowClientEvents)

DispatchAnimEvents(allowClientEvents) ==
    /\ IF _editableModel = NullModel
       THEN /\ UNCHANGED _lastEventCheck
            /\ handled' = << >>
       ELSE /\ _lastEventCheck' = _frame
            /\ handled' = DispatchLoop(_lastEventCheck, _frame, 0, allowClientEvents)
    /\ call' = Call("DispatchAnimEvents", IF allowClientEvents THEN 1 ELSE 0,
                    _editableModel # NullModel)
    /\ UNCHANGED << _editableModel, _sequence, _frame, _animTime, _loopingMode,
                    _frameRate, time >>

\* DispatchAnimEvents up to its while loop (lines 209-220): the window is
\* kept in the history of the call
BeginDispatchAnimEvents(allowClientEvents) ==
    /\ pc = "idle"
    /\ IF _editableModel = NullModel
       THEN UNCHANGED << _lastEventCheck, pc >>
       ELSE /\ _lastEventCheck' = _frame
            /\ pc' = "loop"
    /\ dispatchIndex' = 0
    /\ handled' = << >>
    /\ call' = Call("DispatchAnimEvents", IF allowClientEvents THEN 1 ELSE 0,
                    _editableModel # NullModel)
    /\ UNCHANGED << _editableModel, _sequence, _frame, _animTime, _loopingMode,
                    _frameRate, time >>

\* one test of the while condition (line 222) and, when it holds, one
\* HandleAnimEvent call (line 224)
StepDispatchAnimEvents ==
    /\ pc = "loop"
    /\ LET next == GetAnimationEvent(call.lastEventCheck, call.frame, dispatchIndex, call.arg = 1)
       IN  /\ dispatchIndex' = next
           /\ IF next # 0
              THEN /\ handled' = Append(handled, next)
                   /\ UNCHANGED pc
              ELSE /\ pc' = "idle"
                   /\ UNCHANGED handled
    /\ UNCHANGED << _editableModel, _sequence, _frame, _lastEventCheck, _animTime,
                    _loopingMode, _frameRate, time, call >>

----------------------------------------------------------------------------
(* SetFrame, SetSequence *)

\* without the test for the sentinel -1
SetFrameRunsOnSentinel(frame) ==
    /\ _editableModel # NullModel
    /\ HasValidSequence

SetFrameRuns(frame) ==
    /\ frame # ToUnits(NoFrame)
    /\ _editableModel # NullModel
    /\ HasValidSequence

SetFrame(frame) ==
    /\ IF SetFrameRuns(frame)
       THEN /\ _frame' = IF SequenceDescriptor.NumFrames <= 1 THEN 0
                         ELSE WrapFrame(frame, SequenceDescriptor)
            /\ _animTime' = time
       ELSE UNCHANGED << _frame, _animTime >>
    /\ call' = Call("SetFrame", frame, SetFrameRuns(frame))
    /\ handled' = << >>
    /\ UNCHANGED << _editableModel, _sequence, _lastEventCheck, _loopingMode,
                    _frameRate, time >>

\* rejects -1 as well: sequence < 0 instead of sequence < -1
AcceptedSequenceNoNone(sequence) ==
    IF NumSequences = 0 THEN { NoSequence }
    ELSE IF sequence < 0 \/ sequence >= NumSequences
    THEN { }
    ELSE { sequence }

\* accepts the index one past the end: sequence > size instead of >= size
AcceptedSequenceOnePast(sequence) ==
    IF NumSequences = 0 THEN { NoSequence }
    ELSE IF sequence # NoSequence /\ (sequence < NoSequence \/ sequence > NumSequences)
    THEN { }
    ELSE { sequence }

\* the index SetSequence goes on with, or the empty set when it returns early
AcceptedSequence(sequence) ==
    IF NumSequences = 0 THEN { NoSequence }
    ELSE IF sequence # NoSequence /\ (sequence < NoSequence \/ sequence >= NumSequences)
    THEN { }
    ELSE { sequence }

\* SetSequence dereferences _editableModel unchecked: it is only called on
\* an entity that has its model
SetSequence(sequence) ==
    /\ _editableModel # NullModel
    /\ IF AcceptedSequence(sequence) = { }
       THEN UNCHANGED << _sequence, _frame, _lastEventCheck >>
       ELSE /\ _sequence' \in AcceptedSequence(sequence)
            /\ _frame' = 0
            /\ _lastEventCheck' = 0
    /\ call' = Call("SetSequence", sequence, AcceptedSequence(sequence) # { })
    /\ handled' = << >>
    /\ UNCHANGED << _editableModel, _animTime, _loopingMode, _frameRate, time >>

----------------------------------------------------------------------------
(* The controller / blend value codec: SetController, SetMouth, SetBlending *)

\* the first bone controller whose Index matches, as a 1-based position, or
\* 0 when the search runs off the end of BoneControllers
\* falls back to the first controller when none has the index
FindControllerOrFirst(index) ==
    LET controllers == Models[_editableModel].BoneControllers
        matches     == { i \in 1 .. Len(controllers) : controllers[i].Index = index }
    IN  IF matches = { } THEN (IF Len(controllers) > 0 THEN 1 ELSE 0)
        ELSE CHOOSE i \in matches : \A j \in matches : i <= j

FindController(index) ==
    LET controllers == Models[_editableModel].BoneControllers
        matches     == { i \in 1 .. Len(controllers) : controllers[i].Index = index }
    IN  IF matches = { } THEN 0
        ELSE CHOOSE i \in matches : \A j \in matches : i <= j

\* Type & (STUDIO_XR | STUDIO_YR | STUDIO_ZR)
IsRotational(channel) == channel.Type = "rot"

\* "ugly hack, invert value if end < start"
InvertIfReversed(value, channel) ==
    IF channel.End < channel.Start THEN -value ELSE value

\* the controller does not wrap: bring the value within 180 of the midpoint
\* (Start + End) / 2.0, first downward, then upward
RecenterValue(value, channel) ==
    LET lowered == IF 2 * value > channel.Start + channel.End + 360
                   THEN value - 360 ELSE value
    IN  IF 2 * lowered < channel.Start + channel.End - 360
        THEN lowered + 360 ELSE lowered

\* the controller wraps: bring the value into 0 .. 360
NormalizeValue(value) ==
    IF value > 360 THEN value - TruncDiv(value, 360) * 360
    ELSE IF value < 0 THEN value + (TruncDiv(-value, 360) + 1) * 360
    ELSE value

\* the value SetController and SetMouth map, after the rotational adjustment
ControllerValue(value, channel) ==
    IF IsRotational(channel)
    THEN IF channel.Start + 359 >= channel.End
         THEN RecenterValue(InvertIfReversed(value, channel), channel)
         ELSE NormalizeValue(InvertIfReversed(value, channel))
    ELSE value

\* the value StandardBlender::CalculateBlend maps: no branch for wrapping ranges
BlendValue(value, channel) ==
    IF IsRotational(channel)
    THEN IF channel.Start + 359 >= channel.End
         THEN RecenterValue(InvertIfReversed(value, channel), channel)
         ELSE InvertIfReversed(value, channel)
    ELSE value

\* rounds to the nearest setting instead of truncating
EncodeSettingRounded(value, channel, max) ==
    TruncDiv(2 * max * (value - channel.Start) + (channel.End - channel.Start),
             2 * (channel.End - channel.Start))

\* (int)(max * (value - Start) / (End - Start)), Start # End
EncodeSetting(value, channel, max) ==
    TruncDiv(max * (value - channel.Start), channel.End - channel.Start)

\* no clamp at all: the setting goes to the byte as it is
ClampSettingMissing(setting, max) == setting

\* std::clamp(setting, 0, max)
ClampSetting(setting, max) == Max(0, Min(setting, max))

\* the conversion of an int to std::uint8_t
ToUint8(setting) == setting % 256

ControllerSetting(value, channel, max) ==
    ToUint8(ClampSetting(EncodeSetting(ControllerValue(value, channel), channel, max), max))

\* yields 0 for an unused channel instead of no value
StandardCalculateBlendZero(seq, blender, value) ==
    LET channel == seq.BlendData[blender + 1]
    IN  IF channel.Type = "none" THEN { 0 }
        ELSE { ToUint8(ClampSetting(EncodeSetting(BlendValue(value, channel),
                                                  channel, MaxSetting), MaxSetting)) }

\* StandardBlender::CalculateBlend: the optional result as a set, empty for
\* "no value"
StandardCalculateBlend(seq, blender, value) ==
    LET channel == seq.BlendData[blender + 1]
    IN  IF channel.Type = "none" THEN { }
        ELSE { ToUint8(ClampSetting(EncodeSetting(BlendValue(value, channel),
                                                  channel, MaxSetting), MaxSetting)) }

SetControllerRuns(controller) ==
    _editableModel # NullModel /\ FindController(controller) # 0

\* called with the channels 0 .. STUDIO_MAX_CONTROLLERS - 1 that _controller
\* has room for, or with an index no controller has
SetController(controller, value) ==
    /\ IF SetControllerRuns(controller)
       THEN LET boneController ==
                    Models[_editableModel].BoneControllers[FindController(controller)]
            IN  /\ _controllerValues' = [_controllerValues EXCEPT ![controller] = value]
                /\ _controller' = [_controller EXCEPT ![controller] =
                                     ControllerSetting(value, boneController, MaxSetting)]
       ELSE UNCHANGED << _controller, _controllerValues >>
    /\ call' = CodecCall("SetController", controller, value, SetControllerRuns(controller), 0, 0)
    /\ handled' = << >>
    /\ UNCHANGED << _editableModel, _sequence, _frame, _lastEventCheck, _animTime,
                    _loopingMode, _frameRate, time, playVars,
                    _mouth, _mouthValue, _blending, _blendingValues >>

SetMouthRuns ==
    _editableModel # NullModel /\ FindController(STUDIO_MOUTH_CONTROLLER) # 0

SetMouth(value) ==
    /\ IF SetMouthRuns
       THEN LET boneController ==
                    Models[_editableModel].BoneControllers[FindController(STUDIO_MOUTH_CONTROLLER)]
            IN  /\ _mouthValue' = value
                /\ _mouth' = ControllerSetting(value, boneController, MaxMouthSetting)
       ELSE UNCHANGED << _mouth, _mouthValue >>
    /\ call' = CodecCall("SetMouth", STUDIO_MOUTH_CONTROLLER, value, SetMouthRuns, 0, 0)
    /\ handled' = << >>
    /\ UNCHANGED << _editableModel, _sequence, _frame, _lastEventCheck, _animTime,
                    _loopingMode, _frameRate, time, playVars,
                    _controller, _controllerValues, _blending, _blendingValues >>

SetBlendingRuns(blender) ==
    /\ _editableModel # NullModel
    /\ blender >= 0 /\ blender < STUDIO_MAX_BLENDERS
    /\ HasValidSequence

\* with the StandardBlender strategy
SetBlending(blender, value) ==
    /\ IF SetBlendingRuns(blender)
       THEN LET setting == StandardCalculateBlend(SequenceDescriptor, blender, value)
            IN  IF setting # { }
                THEN /\ _blending' = [_blending EXCEPT ![blender] =
                                        CHOOSE byte \in setting : TRUE]
                     /\ _blendingValues' = [_blendingValues EXCEPT ![blender] = value]
                ELSE UNCHANGED << _blending, _blendingValues >>
       ELSE UNCHANGED << _blending, _blendingValues >>
    /\ call' = IF SetBlendingRuns(blender)
               THEN CodecCall("SetBlending", blender, value, TRUE,
                              _blending[blender], _blendingValues[blender])
               ELSE CodecCall("SetBlending", blender, value, FALSE, 0, 0)
    /\ handled' = << >>
    /\ UNCHANGED << _editableModel, _sequence, _frame, _lastEventCheck, _animTime,
                    _loopingMode, _frameRate, time, playVars,
                    _controller, _controllerValues, _mouth, _mouthValue >>

\* (int) of the double that CounterStrikeBlender::CalculateBlend casts:
\* (180.0 + value) / 360.0 * 255.0 for channel X (0) and
\* (45 + value) / 90.0 * 255.0 for channel Y (1)
CounterStrikeSetting(blender, value) ==
    IF blender = 0 THEN TruncDiv((180 + value) * MaxSetting, 360)
    ELSE TruncDiv((45 + value) * MaxSetting, 90)

\* static_cast<std::uint8_t> of a double: the truncated value when a byte can
\* hold it; otherwise the conversion is undefined, and a build yields the
\* low byte of the integer conversion or the nearest end of the byte range
CastDoubleToUint8(setting) ==
    IF setting >= 0 /\ setting <= MaxSetting THEN { setting }
    ELSE { ToUint8(setting), ClampSetting(setting, MaxSetting) }

\* CounterStrikeBlender::CalculateBlend: the bytes the call can return; the
\* BlendData of the sequence is not read
CounterStrikeCalculateBlend(seq, blender, value) ==
    CastDoubleToUint8(CounterStrikeSetting(blender, value))

\* SetBlending with the CounterStrikeBlender strategy
CounterStrikeSetBlending(blender, value) ==
    /\ IF SetBlendingRuns(blender)
       THEN /\ \E byte \in CounterStrikeCalculateBlend(SequenceDescriptor, blender, value) :
                  _blending' = [_blending EXCEPT ![blender] = byte]
            /\ _blendingValues' = [_blendingValues EXCEPT ![blender] = value]
       ELSE UNCHANGED << _blending, _blendingValues >>
    /\ call' = IF SetBlendingRuns(blender)
               THEN CodecCall("SetBlending", blender, value, TRUE,
                              _blending[blender], _blendingValues[blender])
               ELSE CodecCall("SetBlending", blender, value, FALSE, 0, 0)
    /\ handled' = << >>
    /\ UNCHANGED << _editableModel, _sequence, _frame, _lastEventCheck, _animTime,
                    _loopingMode, _frameRate, time, playVars,
                    _controller, _controllerValues, _mouth, _mouthValue >>

\* Spawn: SetController(c, 0.0f) on every channel, SetMouth(0.0f)
SpawnController(model, controller, max) ==
    LET controllers == Models[model].BoneControllers
        matches     == { i \in 1 .. Len(controllers) : controllers[i].Index = controller }
    IN  IF matches = { } THEN 0
        ELSE ControllerSetting(0, controllers[CHOOSE i \in matches : \A j \in matches : i <= j],
                               max)

----------------------------------------------------------------------------
(* The studio model renderer (StudioModelRenderer.cpp). Vectors are triples *)
(* of integers; a basis vector stands for its direction, the scaling to     *)
(* unit length (glm::normalize) is left out, and chrome coordinates are in  *)
(* units of 0.5                                                             *)

Vector(x, y, z) == << x, y, z >>
Dot(a, b) == a[1] * b[1] + a[2] * b[2] + a[3] * b[3]
Cross(a, b) == << a[2] * b[3] - a[3] * b[2],
                  a[3] * b[1] - a[1] * b[3],
                  a[1] * b[2] - a[2] * b[1] >>
Minus(a, b) == << a[1] - b[1], a[2] - b[2], a[3] - b[3] >>
Plus(a, b) == << a[1] + b[1], a[2] + b[2], a[3] + b[3] >>
Negated(a) == << -a[1], -a[2], -a[3] >>

\* a normal of a mesh: the bone it is attached to and its direction
Normal(bone, vertex) == [Bone |-> bone, Vertex |-> vertex]

\* a vertex of a sub-model: the bone it is attached to and its position
Vertex(bone, vertex) == [Bone |-> bone, Vertex |-> vertex]

\* the commands of one run: the count, then per vertex the four integers
\* vertex index, normal index, s and t
RECURSIVE RunCmds(_, _)
RunCmds(count, k) ==
    IF k > Abs(count) THEN << >>
    ELSE << (k - 1) % 3, 0, k % 2, 0 >> \o RunCmds(count, k + 1)

\* a triangle command stream as the model file holds it: the runs with the
\* given counts (negative: fan, positive: strip), then the count 0
RECURSIVE TriangleCmds(_)
TriangleCmds(counts) ==
    IF counts = << >> THEN << 0 >>
    ELSE << Head(counts) >> \o RunCmds(Head(counts), 1) \o TriangleCmds(Tail(counts))

\* the triangles of the runs with the given counts (mesh.NumTriangles)
RECURSIVE NumTriangles(_)
NumTriangles(counts) ==
    IF counts = << >> THEN 0
    ELSE Abs(Head(counts)) - 2 + NumTriangles(Tail(counts))

\* a mesh: the flags of its texture, its normals, its triangle command
\* stream and its number of triangles
Mesh(flags, normals, triangles) ==
    [Flags |-> flags, Normals |-> normals, Triangles |-> TriangleCmds(triangles),
     NumTriangles |-> NumTriangles(triangles)]

\* the models handed to the renderer: bones 0 .. Bones-1, the model flags,
\* and per body part the vertices and the meshes of the selected sub-model in
\* load order
StudioModels == <<
    [Bones |-> 2, Attachments |-> 1, Hitboxes |-> 1, Flags |-> { },
     Vertices |-> <<
        << Vertex(0, Vector(0, 0, 0)), Vertex(0, Vector(2, 0, 1)),
           Vertex(1, Vector(0, 2, 3)) >> >>,
     Bodyparts |-> <<
        << Mesh({ }, << Normal(0, Vector(1, 0, 0)) >>, << 3 >>),
           Mesh({ "STUDIO_NF_ADDITIVE" }, << Normal(1, Vector(1, 0, 0)) >>, << 4 >>),
           Mesh({ "STUDIO_NF_MASKED", "STUDIO_NF_CHROME" },
                << Normal(0, Vector(0, 1, 0)), Normal(0, Vector(0, 1, 0)) >>, << -4 >>),
           Mesh({ "STUDIO_NF_CHROME" }, << Normal(1, Vector(0, 0, 1)) >>, << 3, 3 >>),
           Mesh({ "STUDIO_NF_MASKED" }, << Normal(0, Vector(0, 0, 1)) >>, << 5 >>) >> >>],
    [Bones |-> 1, Attachments |-> 0, Hitboxes |-> 0, Flags |-> { "EF_NOSHADELIGHT" },
     Vertices |-> <<
        << Vertex(0, Vector(0, 0, 0)), Vertex(0, Vector(1, 0, 0)),
           Vertex(0, Vector(0, 1, 0)) >>,
        << Vertex(0, Vector(0, 0, 1)), Vertex(0, Vector(1, 1, 1)),
           Vertex(0, Vector(0, 1, 2)) >> >>,
     Bodyparts |-> <<
        << Mesh({ "STUDIO_NF_ADDITIVE" }, << >>, << 3 >>),
           Mesh({ "STUDIO_NF_ADDITIVE", "STUDIO_NF_CHROME" },
                << Normal(0, Vector(1, 0, 0)) >>, << -3 >>),
           Mesh({ "STUDIO_NF_MASKED" }, << >>, << 4 >>) >>,
        << Mesh({ "STUDIO_NF_CHROME" }, << Normal(0, Vector(0, 1, 0)) >>, << 3, -7 >>) >> >>] >>

\* the bones of the largest model (the arrays are sized MAXSTUDIOBONES)
AllBones == 0 .. 1

\* BoneTransformer::SetUpBones: one transform per bone for the pose of the
\* render info; a transform is given by its origin (column 3), the rotation
\* part being the identity
SetUpBones(model, pose) ==
    [bone \in 0 .. StudioModels[model].Bones - 1 |-> Vector(bone + 1, pose, model)]

\* the pointer _bonetransform before the first SetUpBones
NoTransforms == << >>

\* Chrome, lines 884-903: the basis of a bone for the viewer as it is now
ChromeBasis(transforms, viewerOrigin, viewerRight, bone) ==
    LET tmp            == Minus(transforms[bone], viewerOrigin)
        chromeupvec    == Cross(tmp, viewerRight)
        chromerightvec == Cross(tmp, chromeupvec)
    IN  [up |-> Negated(chromeupvec), right |-> chromerightvec]

\* Chrome, lines 908-914
ChromeCoordinates(normal, up, right) ==
    << Dot(normal, right) + 1, Dot(normal, up) + 1 >>

\* Chrome with the age test left out: the basis is computed on every call
ChromeStale(cache, transforms, viewerOrigin, viewerRight, count, bone, normal) ==
    LET basis == ChromeBasis(transforms, viewerOrigin, viewerRight, bone)
    IN  [cache      |-> [age   |-> [cache.age EXCEPT ![bone] = count],
                         up    |-> [cache.up EXCEPT ![bone] = basis.up],
                         right |-> [cache.right EXCEPT ![bone] = basis.right]],
         chrome     |-> ChromeCoordinates(normal, basis.up, basis.right),
         recomputed |-> TRUE]

\* StudioModelRenderer::Chrome on the cache (_chromeage, _chromeup,
\* _chromeright): the cache after the call, the coordinates written, and
\* whether the basis was computed
Chrome(cache, transforms, viewerOrigin, viewerRight, count, bone, normal) ==
    LET recompute == cache.age[bone] # count
        basis     == ChromeBasis(transforms, viewerOrigin, viewerRight, bone)
        up        == IF recompute THEN basis.up ELSE cache.up[bone]
        right     == IF recompute THEN basis.right ELSE cache.right[bone]
    IN  [cache      |-> [age   |-> [cache.age EXCEPT ![bone] = count],
                         up    |-> [cache.up EXCEPT ![bone] = up],
                         right |-> [cache.right EXCEPT ![bone] = right]],
         chrome     |-> ChromeCoordinates(normal, up, right),
         recomputed |-> recompute]

\* DrawPoints, lines 572-593: the Chrome calls of one sub-model, in order
RECURSIVE MeshChromeCalls(_, _)
MeshChromeCalls(meshes, j) ==
    IF j > Len(meshes) THEN << >>
    ELSE (IF "STUDIO_NF_CHROME" \in meshes[j].Flags THEN meshes[j].Normals ELSE << >>)
         \o MeshChromeCalls(meshes, j + 1)

\* the Chrome calls made one after the other: the final cache and the log of
\* the calls
RECURSIVE ChromeCalls(_, _, _, _, _, _, _)
ChromeCalls(cache, log, normals, transforms, viewerOrigin, viewerRight, count) ==
    IF normals = << >> THEN [cache |-> cache, log |-> log]
    ELSE LET normal == Head(normals)
             done   == Chrome(cache, transforms, viewerOrigin, viewerRight, count,
                              normal.Bone, normal.Vertex)
         IN  ChromeCalls(done.cache,
                         Append(log, [bone |-> normal.Bone, normal |-> normal.Vertex,
                                      chrome |-> done.chrome,
                                      recomputed |-> done.recomputed]),
                         Tail(normals), transforms, viewerOrigin, viewerRight, count)

\* the render mode of a mesh: masked, solid, additive
RenderMode(flags) ==
    IF "STUDIO_NF_ADDITIVE" \in flags THEN 2
    ELSE IF "STUDIO_NF_MASKED" \in flags THEN 0
    ELSE 1

\* CompareSortedMeshes: lhs is drawn before rhs
CompareSortedMeshes(lhs, rhs) == RenderMode(lhs.Flags) < RenderMode(rhs.Flags)

\* a sort that puts an element before its equals: not stable
InsertBeforeEquals(sorted, mesh) ==
    LET before == { i \in 1 .. Len(sorted) : CompareSortedMeshes(sorted[i], mesh) }
        k      == IF before = { } THEN 0 ELSE CHOOSE i \in before : \A j \in before : j <= i
    IN  SubSeq(sorted, 1, k) \o << mesh >> \o SubSeq(sorted, k + 1, Len(sorted))

\* one step of std::stable_sort: mesh, which came after all of sorted, goes
\* behind the last element that it does not precede
InsertStable(sorted, mesh) ==
    LET notAfter == { i \in 1 .. Len(sorted) : ~CompareSortedMeshes(mesh, sorted[i]) }
        k        == IF notAfter = { } THEN 0
                    ELSE CHOOSE i \in notAfter : \A j \in notAfter : j <= i
    IN  SubSeq(sorted, 1, k) \o << mesh >> \o SubSeq(sorted, k + 1, Len(sorted))

\* std::stable_sort(meshes, meshes + n, CompareSortedMeshes)
RECURSIVE StableSort(_, _)
StableSort(meshes, n) ==
    IF n = 0 THEN << >>
    ELSE InsertStable(StableSort(meshes, n - 1), meshes[n])

\* DrawPoints, lines 563-597: the SortedMesh array handed to DrawMeshes
SortedMeshes(meshes) ==
    StableSort([j \in 1 .. Len(meshes) |-> [Mesh |-> j, Flags |-> meshes[j].Flags]],
               Len(meshes))

\* DrawPoints, lines 558-561: the vertices of the sub-model moved by the
\* transform of their bone
XformVerts(vertices, transforms) ==
    [i \in DOMAIN vertices |-> Plus(transforms[vertices[i].Bone], vertices[i].Vertex)]

\* the vertices of a run: i as read for a strip, -i for a fan
RunLength(i) == IF i < 0 THEN -i ELSE i

\* the loop "while (i = *(ptricmds++))" with its inner loop
\* "for (; i > 0; i--, ptricmds += 4)": the runs read from position pos
\* (1-based) up to the first count that is 0, each with the position of its
\* count, its primitive and the four integers read per vertex
RECURSIVE ReadRuns(_, _)
ReadRuns(ptricmds, pos) ==
    LET i == ptricmds[pos]
    IN  IF i = 0 THEN << >>
        ELSE << [at   |-> pos,
                 mode |-> IF i < 0 THEN "GL_TRIANGLE_FAN" ELSE "GL_TRIANGLE_STRIP",
                 cmds |-> [k \in 1 .. RunLength(i) |->
                             SubSeq(ptricmds, pos + 1 + 4 * (k - 1), pos + 4 * k)]] >>
             \o ReadRuns(ptricmds, pos + 1 + 4 * RunLength(i))

\* counts every vertex of the run as a polygon
RunPolygonsPerVertex(i) == i

\* uiDrawnPolys += i - 2, for the i vertices of a run
RunPolygons(i) == i - 2

RECURSIVE RunsPolygons(_)
RunsPolygons(runs) ==
    IF runs = << >> THEN 0
    ELSE RunPolygons(Len(Head(runs).cmds)) + RunsPolygons(Tail(runs))

\* DrawMeshes, lines 660-705: the polygons of the triangle commands of a mesh
TrianglePolygons(triangles) == RunsPolygons(ReadRuns(triangles, 1))

\* DrawMeshes, lines 660-705: the primitives of one mesh, each vertex read
\* from _xformverts by the first of its four integers
MeshPrimitives(source, pass, mesh, triangles, xformverts) ==
    LET runs == ReadRuns(triangles, 1)
    IN  [r \in DOMAIN runs |->
            [source |-> source, pass |-> pass, mesh |-> mesh,
             at |-> runs[r].at, mode |-> runs[r].mode,
             vertices |-> [k \in DOMAIN runs[r].cmds |-> xformverts[runs[r].cmds[k][1] + 1]]]]

\* DrawMeshes: the primitives of the meshes in the order of the sorted array
RECURSIVE DrawMeshesPrimitives(_, _, _, _, _)
DrawMeshesPrimitives(pass, meshes, sorted, xformverts, j) ==
    IF j > Len(sorted) THEN << >>
    ELSE MeshPrimitives("DrawMeshes", pass, sorted[j].Mesh,
                        meshes[sorted[j].Mesh].Triangles, xformverts)
         \o DrawMeshesPrimitives(pass, meshes, sorted, xformverts, j + 1)

RECURSIVE DrawMeshes(_, _, _)
DrawMeshes(meshes, sorted, j) ==
    IF j > Len(sorted) THEN 0
    ELSE TrianglePolygons(meshes[sorted[j].Mesh].Triangles) + DrawMeshes(meshes, sorted, j + 1)

\* DrawModel, lines 82-120: the DrawPoints calls, each a body part and the
\* wireframe flag
PointsPasses(model, transparency, flags) ==
    LET parts == [i \in 1 .. Len(StudioModels[model].Bodyparts) |-> i]
        pass(wireframe) ==
            IF transparency > 0
            THEN [i \in DOMAIN parts |-> [bodypart |-> i, wireframe |-> wireframe]]
            ELSE << >>
    IN  (IF "NODRAW" \in flags THEN << >> ELSE pass(FALSE))
        \o (IF "WIREFRAME_OVERLAY" \in flags THEN pass(TRUE) ELSE << >>)

\* DrawModel, lines 62-72: the origin handed to SetupPosition
DrawOrigin(renderInfo, flags) ==
    IF "IS_VIEW_MODEL" \in flags
    THEN Vector(renderInfo.Origin[1], renderInfo.Origin[2], renderInfo.Origin[3] - 1)
    ELSE renderInfo.Origin

\* takes the height from the origin the model is drawn at
LightSampleHeightOfDraw(renderInfo, origin) == origin[3]

\* InternalDrawShadows, lines 788-790: "always at the entity origin"
LightSampleHeight(renderInfo, origin) == renderInfo.Origin[3]

\* InternalDrawShadows, lines 813-821: the point a vertex is projected to
ShadowPoint(vertex, lightvec, lightSampleHeight) ==
    LET lightDistance == vertex[3] - lightSampleHeight
    IN  Vector(vertex[1] - lightvec[1] * lightDistance,
               vertex[2] - lightvec[2] * lightDistance,
               lightSampleHeight + 1)

\* InternalDrawShadows: the primitives of the meshes in load order
RECURSIVE InternalDrawShadowsPrimitives(_, _, _, _, _, _)
InternalDrawShadowsPrimitives(pass, meshes, xformverts, lightvec, lightSampleHeight, j) ==
    IF j > Len(meshes) THEN << >>
    ELSE LET runs == MeshPrimitives("InternalDrawShadows", pass, j,
                                    meshes[j].Triangles, xformverts)
         IN  [r \in DOMAIN runs |->
                 [runs[r] EXCEPT !.vertices =
                     [k \in DOMAIN runs[r].vertices |->
                         ShadowPoint(runs[r].vertices[k], lightvec, lightSampleHeight)]]]
             \o InternalDrawShadowsPrimitives(pass, meshes, xformverts, lightvec,
                                              lightSampleHeight, j + 1)

\* InternalDrawShadows: drawnPolys += mesh.NumTriangles
RECURSIVE InternalDrawShadowsPolygons(_, _)
InternalDrawShadowsPolygons(meshes, j) ==
    IF j > Len(meshes) THEN 0
    ELSE meshes[j].NumTriangles + InternalDrawShadowsPolygons(meshes, j + 1)

\* DrawShadows for the sub-model of a pass: the polygons returned and the
\* primitives drawn
DrawShadows(model, pass, meshes, xformverts, lightvec, lightSampleHeight) ==
    IF "EF_NOSHADELIGHT" \notin StudioModels[model].Flags
    THEN [polys      |-> InternalDrawShadowsPolygons(meshes, 1),
          primitives |-> InternalDrawShadowsPrimitives(pass, meshes, xformverts, lightvec,
                                                       lightSampleHeight, 1)]
    ELSE [polys |-> 0, primitives |-> << >>]

\* DrawModel, lines 82-120: per DrawPoints call the DrawShadows call that
\* follows it when DRAW_SHADOWS is set
PassShadows(model, renderInfo, flags, transforms, lightvec, passes, k) ==
    LET bodypart == passes[k].bodypart
    IN  IF "DRAW_SHADOWS" \in flags
        THEN DrawShadows(model, k, StudioModels[model].Bodyparts[bodypart],
                         XformVerts(StudioModels[model].Vertices[bodypart], transforms),
                         lightvec,
                         LightSampleHeight(renderInfo, DrawOrigin(renderInfo, flags)))
        ELSE [polys |-> 0, primitives |-> << >>]

\* the primitives of the DrawPoints and DrawShadows calls, in order
RECURSIVE PassesPrimitives(_, _, _, _, _, _, _)
PassesPrimitives(model, renderInfo, flags, transforms, lightvec, passes, k) ==
    IF k > Len(passes) THEN << >>
    ELSE LET bodypart == passes[k].bodypart
             meshes   == StudioModels[model].Bodyparts[bodypart]
         IN  DrawMeshesPrimitives(k, meshes, SortedMeshes(meshes),
                                  XformVerts(StudioModels[model].Vertices[bodypart],
                                             transforms), 1)
             \o PassShadows(model, renderInfo, flags, transforms, lightvec, passes, k).primitives
             \o PassesPrimitives(model, renderInfo, flags, transforms, lightvec, passes, k + 1)

RECURSIVE PassesShadowPolygons(_, _, _, _, _, _, _)
PassesShadowPolygons(model, renderInfo, flags, transforms, lightvec, passes, k) ==
    IF k > Len(passes) THEN 0
    ELSE PassShadows(model, renderInfo, flags, transforms, lightvec, passes, k).polys
         + PassesShadowPolygons(model, renderInfo, flags, transforms, lightvec, passes, k + 1)

RECURSIVE PassesChromeCalls(_, _, _)
PassesChromeCalls(model, passes, k) ==
    IF k > Len(passes) THEN << >>
    ELSE MeshChromeCalls(StudioModels[model].Bodyparts[passes[k].bodypart], 1)
         \o PassesChromeCalls(model, passes, k + 1)

RECURSIVE PassesPolygons(_, _, _)
PassesPolygons(model, passes, k) ==
    IF k > Len(passes) THEN 0
    ELSE LET meshes == StudioModels[model].Bodyparts[passes[k].bodypart]
         IN  DrawMeshes(meshes, SortedMeshes(meshes), 1) + PassesPolygons(model, passes, k + 1)

\* the last two entries of a log
LastTwo(log) == IF Len(log) <= 2 THEN log ELSE SubSeq(log, Len(log) - 1, Len(log))

RenderCall(op, model, ran, result) ==
    [op |-> op, model |-> model, ran |-> ran, result |-> result]

ChromeCache == [age |-> _chromeage, up |-> _chromeup, right |-> _chromeright]

\* the draw history of a call that drew no model
NoDraw == [renderInfo |-> [Model |-> NullModel], flags |-> { }, origin |-> Vector(0, 0, 0)]

\* what every call but a drawing DrawModel leaves of the light and the
\* draw history
NothingDrawn ==
    /\ primitives' = << >>
    /\ drawInfo' = NoDraw
    /\ UNCHANGED _lightvec

\* StudioModelRenderer::Initialize
Initialize ==
    /\ _modelsDrawnCount' = 0
    /\ _drawnPolygonsCount' = 0
    /\ rcall' = RenderCall("Initialize", NullModel, TRUE, 1)
    /\ chromeLog' = IF _modelsDrawnCount = 0 THEN chromeLog ELSE << >>
    /\ drawn' = << >>
    /\ NothingDrawn
    /\ UNCHANGED << _studioModel, _bonetransform, _viewerOrigin, _viewerRight,
                    _chromeage, _chromeup, _chromeright, drawCalls, basisFrom >>

SetViewerOrigin(origin) ==
    /\ _viewerOrigin' = origin
    /\ rcall' = RenderCall("SetViewerOrigin", NullModel, TRUE, 0)
    /\ drawn' = << >>
    /\ NothingDrawn
    /\ UNCHANGED << _modelsDrawnCount, _drawnPolygonsCount, _studioModel, _bonetransform,
                    _viewerRight, _chromeage, _chromeup, _chromeright,
                    chromeLog, drawCalls, basisFrom >>

SetViewerRight(right) ==
    /\ _viewerRight' = right
    /\ rcall' = RenderCall("SetViewerRight", NullModel, TRUE, 0)
    /\ drawn' = << >>
    /\ NothingDrawn
    /\ UNCHANGED << _modelsDrawnCount, _drawnPolygonsCount, _studioModel, _bonetransform,
                    _viewerOrigin, _chromeage, _chromeup, _chromeright,
                    chromeLog, drawCalls, basisFrom >>

\* the setter of the light direction
SetLightVector(lightvec) ==
    /\ _lightvec' = lightvec
    /\ rcall' = RenderCall("SetLightVector", NullModel, TRUE, 0)
    /\ drawn' = << >>
    /\ primitives' = << >>
    /\ drawInfo' = NoDraw
    /\ UNCHANGED << _modelsDrawnCount, _drawnPolygonsCount, _studioModel, _bonetransform,
                    _viewerOrigin, _viewerRight, _chromeage, _chromeup, _chromeright,
                    chromeLog, drawCalls, basisFrom >>

\* the counter incremented before the model is tested
ModelsDrawnCountEarly(renderInfo) == _modelsDrawnCount + 1

\* DrawModel, lines 48-58: the draw generation after the call
ModelsDrawnCount(renderInfo) ==
    IF renderInfo.Model = NullModel THEN _modelsDrawnCount ELSE _modelsDrawnCount + 1

\* StudioModelRenderer::DrawModel; the flags are those of the DrawPoints calls
DrawModel(renderInfo, flags) ==
    IF renderInfo.Model = NullModel
    THEN /\ rcall' = RenderCall("DrawModel", NullModel, FALSE, 0)
         /\ drawn' = << >>
         /\ NothingDrawn
         /\ _modelsDrawnCount' = ModelsDrawnCount(renderInfo)
         /\ UNCHANGED << _drawnPolygonsCount, _studioModel,
                         _bonetransform, _viewerOrigin, _viewerRight,
                         _chromeage, _chromeup, _chromeright,
                         chromeLog, drawCalls, basisFrom >>
    ELSE LET model      == renderInfo.Model
             count      == ModelsDrawnCount(renderInfo)
             transforms == SetUpBones(model, renderInfo.Pose)
             passes     == PointsPasses(model, renderInfo.Transparency, flags)
             done       == ChromeCalls(ChromeCache, << >>,
                                       PassesChromeCalls(model, passes, 1), transforms,
                                       _viewerOrigin, _viewerRight, count)
             uiDrawnPolys == PassesPolygons(model, passes, 1)
                             + PassesShadowPolygons(model, renderInfo, flags, transforms,
                                                    _lightvec, passes, 1)
         IN  /\ drawCalls < MaxDraws
             /\ _studioModel' = model
             /\ _modelsDrawnCount' = count
             /\ _bonetransform' = transforms
             /\ _chromeage' = done.cache.age
             /\ _chromeup' = done.cache.up
             /\ _chromeright' = done.cache.right
             /\ _drawnPolygonsCount' = _drawnPolygonsCount + uiDrawnPolys
             /\ rcall' = RenderCall("DrawModel", model, TRUE, uiDrawnPolys)
             /\ chromeLog' = LastTwo(done.log)
             /\ drawn' = [k \in DOMAIN passes |->
                            LET sorted == SortedMeshes(
                                    StudioModels[model].Bodyparts[passes[k].bodypart])
                            IN  [bodypart |-> passes[k].bodypart,
                                 order    |-> [j \in DOMAIN sorted |-> sorted[j].Mesh]]]
             /\ drawCalls' = drawCalls + 1
             /\ basisFrom' = [bone \in AllBones |->
                                IF \E k \in DOMAIN done.log :
                                      done.log[k].bone = bone /\ done.log[k].recomputed
                                THEN drawCalls + 1 ELSE basisFrom[bone]]
             /\ primitives' = PassesPrimitives(model, renderInfo, flags, transforms,
                                               _lightvec, passes, 1)
             /\ drawInfo' = [renderInfo |-> renderInfo, flags |-> flags,
                             origin |-> DrawOrigin(renderInfo, flags)]
             /\ UNCHANGED << _viewerOrigin, _viewerRight, _lightvec >>

\* DrawSingleBone, DrawSingleAttachment, DrawSingleHitbox: the index is
\* checked against the model's bones, attachments or hitboxes
DrawSingle(op, renderInfo, index, size) ==
    LET model == renderInfo.Model
        runs  == model # NullModel /\ index >= 0 /\ index < size
    IN  /\ IF runs
           THEN /\ _bonetransform' = SetUpBones(model, renderInfo.Pose)
                /\ _studioModel' = NullModel
           ELSE UNCHANGED << _bonetransform, _studioModel >>
        /\ rcall' = RenderCall(op, IF runs THEN model ELSE NullModel, runs, 0)
        /\ drawn' = << >>
        /\ NothingDrawn
        /\ UNCHANGED << _modelsDrawnCount, _drawnPolygonsCount, _viewerOrigin, _viewerRight,
                        _chromeage, _chromeup, _chromeright,
                        chromeLog, drawCalls, basisFrom >>

DrawSingleBone(renderInfo, iBone) ==
    DrawSingle("DrawSingleBone", renderInfo, iBone,
               IF renderInfo.Model = NullModel THEN 0
               ELSE StudioModels[renderInfo.Model].Bones)

DrawSingleAttachment(renderInfo, iAttachment) ==
    DrawSingle("DrawSingleAttachment", renderInfo, iAttachment,
               IF renderInfo.Model = NullModel THEN 0
               ELSE StudioModels[renderInfo.Model].Attachments)

DrawSingleHitbox(renderInfo, hitboxIndex) ==
    DrawSingle("DrawSingleHitbox", renderInfo, hitboxIndex,
               IF renderInfo.Model = NullModel THEN 0
               ELSE StudioModels[renderInfo.Model].Hitboxes)

\* one more Chrome call for a normal of the model being drawn, with the
\* renderer as DrawModel left it: the same generation, the same transforms
ChromeCall(bone, normal) ==
    /\ _studioModel # NullModel
    /\ bone \in DOMAIN _bonetransform
    /\ LET done == Chrome(ChromeCache, _bonetransform, _viewerOrigin, _viewerRight,
                          _modelsDrawnCount, bone, normal)
       IN  /\ _chromeage' = done.cache.age
           /\ _chromeup' = done.cache.up
           /\ _chromeright' = done.cache.right
           /\ chromeLog' = LastTwo(Append(chromeLog,
                              [bone |-> bone, normal |-> normal, chrome |-> done.chrome,
                               recomputed |-> done.recomputed]))
           /\ basisFrom' = IF done.recomputed
                           THEN [basisFrom EXCEPT ![bone] = drawCalls] ELSE basisFrom
    /\ rcall' = RenderCall("Chrome", _studioModel, TRUE, 0)
    /\ drawn' = << >>
    /\ NothingDrawn
    /\ UNCHANGED << _modelsDrawnCount, _drawnPolygonsCount, _studioModel, _bonetransform,
                    _viewerOrigin, _viewerRight, drawCalls >>

\* the renderer after construction
RendererConstructed ==
    /\ _modelsDrawnCount = 0
    /\ _drawnPolygonsCount = 0
    /\ _studioModel = NullModel
    /\ _bonetransform = NoTransforms
    /\ _viewerOrigin = Vector(0, -4, 0)
    /\ _viewerRight = Vector(1, 0, 0)
    /\ _chromeage = [bone \in AllBones |-> 0]
    /\ _chromeup = [bone \in AllBones |-> Vector(0, 0, 0)]
    /\ _chromeright = [bone \in AllBones |-> Vector(0, 0, 0)]
    /\ rcall = RenderCall("Construct", NullModel, TRUE, 0)
    /\ chromeLog = << >>
    /\ drawn = << >>
    /\ drawCalls = 0
    /\ basisFrom = [bone \in AllBones |-> 0]
    /\ _lightvec = Vector(0, 0, -1)
    /\ primitives = << >>
    /\ drawInfo = NoDraw

----------------------------------------------------------------------------
(* The world clock *)

Tick ==
    /\ time < MaxTime
    /\ time' = time + 1
    /\ call' = Call("Tick", 0, TRUE)
    /\ handled' = << >>
    /\ UNCHANGED << _editableModel, _sequence, _frame, _lastEventCheck, _animTime,
                    _loopingMode, _frameRate >>

----------------------------------------------------------------------------
(* The entity after construction, SetEditableModel and Spawn *)

\* the handled-count history of a freshly set sequence
NoneFired(sequence) ==
    IF sequence >= 0 /\ sequence < NumSequences
    THEN [i \in 1 .. Len(Models[_editableModel].Sequences[sequence + 1].SortedEvents) |-> 0]
    ELSE << >>

----------------------------------------------------------------------------
(* The scene (Scene.cpp): several users share one renderer *)

MaxScenes == 3

\* StudioModelRenderer::Shutdown: the body is empty
Shutdown ==
    /\ rcall' = RenderCall("Shutdown", NullModel, TRUE, 0)
    /\ UNCHANGED << _modelsDrawnCount, _drawnPolygonsCount, _studioModel, _bonetransform,
                    _viewerOrigin, _viewerRight, _chromeage, _chromeup, _chromeright,
                    chromeLog, drawn, drawCalls, basisFrom,
                    _lightvec, primitives, drawInfo >>

SceneConstructed ==
    /\ _initializeCount = 0
    /\ rendererRuns = 0

\* Scene::Initialize with the renderer initialised on every call
SceneInitializeEveryCall ==
    /\ _initializeCount < MaxScenes
    /\ _initializeCount' = _initializeCount + 1
    /\ Initialize
    /\ rendererRuns' = rendererRuns + 1

\* Scene::Initialize
SceneInitialize ==
    /\ _initializeCount < MaxScenes
    /\ _initializeCount' = _initializeCount + 1
    /\ IF _initializeCount' # 1
       THEN UNCHANGED << renderVars, rendererRuns >>
       ELSE /\ Initialize
            /\ rendererRuns' = rendererRuns + 1

\* Scene::Shutdown, called by a user that called Initialize before
SceneShutdown ==
    /\ _initializeCount > 0
    /\ _initializeCount' = _initializeCount - 1
    /\ IF _initializeCount' # 0
       THEN UNCHANGED << renderVars, rendererRuns >>
       ELSE /\ Shutdown
            /\ rendererRuns' = rendererRuns - 1

----------------------------------------------------------------------------
(* The main window (MainWindow.cpp): asset tabs and unsaved changes *)

MaxAssets == 2
AssetIds == 1 .. MaxAssets

\* the buttons of the "Unsaved changes" question
Answers == { "Save", "Discard", "Cancel" }

Outcome(result, isClean) == [result |-> result, clean |-> isClean]

\* the record of a window operation: its inputs, its result and the state before
WindowCall(op, index, verify, answers, saves, result) ==
    [op |-> op, index |-> index, verify |-> verify, answers |-> answers,
     saves |-> saves, result |-> result, tabs |-> _assetTabs, clean |-> clean]

Unasked == [asset \in { } |-> "Cancel"]

WindowConstructed ==
    /\ _assetTabs = << >>
    /\ _undoGroup = { }
    /\ assets = { }
    /\ clean = [asset \in AssetIds |-> TRUE]
    /\ event = "none"
    /\ wcall = WindowCall("Construct", 0, FALSE, Unasked, Unasked, TRUE)

\* MainWindow::GetAsset, with the 0-based tab index of the code
GetAsset(index) == _assetTabs[index + 1]

OpenAssets == { _assetTabs[i] : i \in 1 .. Len(_assetTabs) }

\* QTabWidget::removeTab
RemoveTab(tabs, index) == SubSeq(tabs, 1, index) \o SubSeq(tabs, index + 2, Len(tabs))

\* MainWindow::SaveAsset: asset->Save() throws or not; setClean on success
SaveAsset(asset, saves, isClean) ==
    IF saves[asset]
    THEN Outcome(TRUE, [isClean EXCEPT ![asset] = TRUE])
    ELSE Outcome(FALSE, isClean)

\* MainWindow::VerifyNoUnsavedChanges with a failed save taken for a success
VerifyNoUnsavedChangesSaveUnchecked(asset, answers, saves, isClean) ==
    IF isClean[asset]
    THEN Outcome(TRUE, isClean)
    ELSE CASE answers[asset] = "Save" -> Outcome(TRUE, SaveAsset(asset, saves, isClean).clean)
           [] answers[asset] = "Discard" -> Outcome(TRUE, isClean)
           [] OTHER -> Outcome(FALSE, isClean)

\* MainWindow::VerifyNoUnsavedChanges
VerifyNoUnsavedChanges(asset, answers, saves, isClean) ==
    IF isClean[asset]
    THEN Outcome(TRUE, isClean)
    ELSE CASE answers[asset] = "Save" -> SaveAsset(asset, saves, isClean)
           [] answers[asset] = "Discard" -> Outcome(TRUE, isClean)
           [] OTHER -> Outcome(FALSE, isClean)

\* the undo stacks after the assets are deleted
Deleted(isClean, deleted) ==
    [asset \in AssetIds |-> IF asset \in deleted THEN TRUE ELSE isClean[asset]]

\* MainWindow::TryCloseAsset
TryCloseAsset(index, verifyUnsavedChanges, answers, saves) ==
    /\ event # "accepted"
    /\ index \in 0 .. Len(_assetTabs) - 1
    /\ LET asset == GetAsset(index)
           verified == IF verifyUnsavedChanges
                       THEN VerifyNoUnsavedChanges(asset, answers, saves, clean)
                       ELSE Outcome(TRUE, clean)
       IN  IF ~verified.result
           THEN /\ clean' = verified.clean
                /\ wcall' = WindowCall("TryCloseAsset", index, verifyUnsavedChanges,
                                       answers, saves, FALSE)
                /\ UNCHANGED << _assetTabs, _undoGroup, assets >>
           ELSE /\ _assetTabs' = RemoveTab(_assetTabs, index)
                /\ _undoGroup' = _undoGroup \ { asset }
                /\ assets' = assets \ { asset }
                /\ clean' = Deleted(verified.clean, { asset })
                /\ wcall' = WindowCall("TryCloseAsset", index, verifyUnsavedChanges,
                                       answers, saves, TRUE)
    /\ UNCHANGED event

\* the first loop of closeEvent from tab i on
RECURSIVE VerifyAll(_, _, _, _)
VerifyAll(i, answers, saves, isClean) ==
    IF i >= Len(_assetTabs)
    THEN Outcome(TRUE, isClean)
    ELSE LET verified == VerifyNoUnsavedChanges(GetAsset(i), answers, saves, isClean)
         IN  IF ~verified.result
             THEN verified
             ELSE VerifyAll(i + 1, answers, saves, verified.clean)

\* MainWindow::closeEvent
closeEvent(answers, saves) ==
    /\ event # "accepted"
    /\ LET verified == VerifyAll(0, answers, saves, clean)
       IN  IF ~verified.result
           THEN /\ event' = "ignored"
                /\ clean' = verified.clean
                /\ wcall' = WindowCall("closeEvent", 0, TRUE, answers, saves, FALSE)
                /\ UNCHANGED << _assetTabs, _undoGroup, assets >>
           ELSE \* while (count() > 0) TryCloseAsset(0, false)
                /\ _assetTabs' = << >>
                /\ _undoGroup' = _undoGroup \ OpenAssets
                /\ assets' = assets \ OpenAssets
                /\ clean' = Deleted(verified.clean, OpenAssets)
                /\ event' = "accepted"
                /\ wcall' = WindowCall("closeEvent", 0, TRUE, answers, saves, TRUE)

\* MainWindow::TryLoadAsset; loaded is whether the provider returned an asset
TryLoadAsset(asset, loaded) ==
    /\ event # "accepted"
    /\ asset \notin assets
    /\ IF loaded
       THEN /\ _undoGroup' = _undoGroup \cup { asset }
            /\ assets' = assets \cup { asset }
            /\ _assetTabs' = Append(_assetTabs, asset)
            /\ clean' = [clean EXCEPT ![asset] = TRUE]
       ELSE UNCHANGED << _assetTabs, _undoGroup, assets, clean >>
    /\ wcall' = WindowCall("TryLoadAsset", Len(_assetTabs), FALSE, Unasked, Unasked, loaded)
    /\ UNCHANGED event

\* an edit of an open asset pushes a command on its undo stack
EditAsset(index) ==
    /\ event # "accepted"
    /\ index \in 0 .. Len(_assetTabs) - 1
    /\ clean' = [clean EXCEPT ![GetAsset(index)] = FALSE]
    /\ wcall' = WindowCall("Edit", index, FALSE, Unasked, Unasked, TRUE)
    /\ UNCHANGED << _assetTabs, _undoGroup, assets, event >>

LoopingModes == { "AlwaysLoop", "NeverLoop", "UseSequenceSetting" }
FrameRates == { 1, 2 }

InitWith(models) ==
    /\ _editableModel \in models
    /\ _sequence = 0
    /\ _frame = 0
    /\ _lastEventCheck = 0
    /\ _animTime = 0
    /\ _loopingMode \in LoopingModes
    /\ _frameRate \in FrameRates
    /\ time = 0
    /\ call = [op |-> "Init", arg |-> 0, ran |-> TRUE,
               sequence |-> 0, frame |-> 0, lastEventCheck |-> 0, animTime |-> 0,
               channel |-> 0, byte |-> 0, value |-> 0]
    /\ handled = << >>
    /\ played = 0
    /\ fired = NoneFired(0)
    /\ awaiting = FALSE
    /\ pc = "idle"
    /\ dispatchIndex = 0
    /\ _controller = [c \in 0 .. STUDIO_MAX_CONTROLLERS - 1 |->
                        IF _editableModel = NullModel THEN 0
                        ELSE SpawnController(_editableModel, c, MaxSetting)]
    /\ _controllerValues = [c \in 0 .. STUDIO_MAX_CONTROLLERS |-> 0]
    /\ _mouth = IF _editableModel = NullModel THEN 0
                ELSE SpawnController(_editableModel, STUDIO_MOUTH_CONTROLLER, MaxMouthSetting)
    /\ _mouthValue = 0
    /\ _blending = [b \in 0 .. STUDIO_MAX_BLENDERS - 1 |-> 0]
    /\ _blendingValues = [b \in 0 .. STUDIO_MAX_BLENDERS - 1 |-> 0]
    /\ RendererConstructed
    /\ SceneConstructed
    /\ WindowConstructed

Init == InitWith({ NullModel, 1 })

Next ==
    \/ \E deltaTime \in 0 .. MaxDelta, maximum \in { NoMaximum } \cup 0 .. MaxMaximum :
          AdvanceFrame(deltaTime, maximum) /\ UNCHANGED << playVars, loopVars, codecVars, renderVars, appVars >>
    \/ \E allowClientEvents \in BOOLEAN :
          DispatchAnimEvents(allowClientEvents) /\ UNCHANGED << playVars, loopVars, codecVars, renderVars, appVars >>
    \/ \E frame \in -2 .. MaxSetFrame :
          SetFrame(ToUnits(frame)) /\ UNCHANGED << playVars, loopVars, codecVars, renderVars, appVars >>
    \/ \E sequence \in -2 .. NumSequences + SeqSlack - 1 :
          SetSequence(sequence) /\ UNCHANGED << playVars, loopVars, codecVars, renderVars, appVars >>
    \/ Tick /\ UNCHANGED << playVars, loopVars, codecVars, renderVars, appVars >>

Spec == Init /\ [][Next]_vars

----------------------------------------------------------------------------
(* The sequencer on the model whose sequences have at most one frame *)

StillModel == Len(Models) - 1

StillInit == InitWith({ StillModel })

SpecStill == StillInit /\ [][Next]_vars

----------------------------------------------------------------------------
(* The sequencer with DispatchAnimEvents taken one loop iteration at a time; *)
(* the call runs to its end on the one thread of the program before any     *)
(* other operation starts                                                   *)

\* one loop iteration as a step of the whole state
DispatchLoopStep ==
    StepDispatchAnimEvents /\ UNCHANGED << playVars, codecVars, renderVars, appVars >>

DispatchNext ==
    \/ \E deltaTime \in 0 .. MaxDelta :
          /\ pc = "idle"
          /\ AdvanceFrame(deltaTime, NoMaximum)
          /\ UNCHANGED << playVars, loopVars, codecVars, renderVars, appVars >>
    \/ \E allowClientEvents \in BOOLEAN :
          BeginDispatchAnimEvents(allowClientEvents)
             /\ UNCHANGED << playVars, codecVars, renderVars, appVars >>
    \/ DispatchLoopStep
    \/ \E sequence \in 0 .. NumSequences - 1 :
          /\ pc = "idle"
          /\ SetSequence(sequence)
          /\ UNCHANGED << playVars, loopVars, codecVars, renderVars, appVars >>
    \/ pc = "idle" /\ Tick /\ UNCHANGED << playVars, loopVars, codecVars, renderVars, appVars >>

SpecDispatch == Init /\ [][DispatchNext]_vars /\ WF_vars(DispatchLoopStep)

----------------------------------------------------------------------------
(* Playback: a sequence is set and then played by AdvanceFrame calls, each  *)
(* followed by one DispatchAnimEvents(true); the history counts the frame   *)
(* units played and how often each event was handled since SetSequence      *)

Occurrences(i) == Cardinality({ k \in 1 .. Len(handled') : handled'[k] = i })

PlaySetSequence(sequence) ==
    /\ ~awaiting
    /\ SetSequence(sequence)
    /\ played' = 0
    /\ fired' = NoneFired(_sequence')
    /\ UNCHANGED << awaiting, loopVars, codecVars, renderVars, appVars >>

PlayAdvanceFrame(deltaTime) ==
    /\ ~awaiting
    /\ AdvanceFrame(deltaTime, NoMaximum)
    /\ played' = played + call'.arg
    /\ played' <= MaxPlayed
    /\ awaiting' = TRUE
    /\ UNCHANGED << fired, loopVars, codecVars, renderVars, appVars >>

PlayDispatchAnimEvents ==
    /\ awaiting
    /\ DispatchAnimEvents(TRUE)
    /\ fired' = [i \in DOMAIN fired |-> fired[i] + Occurrences(i)]
    /\ \A i \in DOMAIN fired : fired'[i] <= MaxFired
    /\ awaiting' = FALSE
    /\ UNCHANGED << played, loopVars, codecVars, renderVars, appVars >>

PlayInit == InitWith({ 1 })

PlayNext ==
    \/ \E sequence \in -1 .. NumSequences - 1 : PlaySetSequence(sequence)
    \/ \E deltaTime \in 0 .. MaxDelta : PlayAdvanceFrame(deltaTime)
    \/ PlayDispatchAnimEvents
    \/ Tick /\ UNCHANGED << playVars, loopVars, codecVars, renderVars, appVars >>

SpecPlay == PlayInit /\ [][PlayNext]_vars

----------------------------------------------------------------------------
(* The codec on every model: controller, mouth and blend values are set in *)
(* any order while the sequence changes                                    *)

ControllerValues == { -725, -400, -100, -45, -10, 0, 30, 45, 90, 200, 300, 400, 725 }
MouthValues == { -50, 0, 10, 32, 45, 100, 400 }
BlendValues == { -200, -45, 0, 30, 50, 100, 330, 400 }

CodecInit ==
    /\ InitWith(1 .. Len(Models))
    /\ _loopingMode = "AlwaysLoop"
    /\ _frameRate = 1

CodecNext ==
    \/ \E controller \in -1 .. STUDIO_MAX_CONTROLLERS - 1, value \in ControllerValues :
          SetController(controller, value) /\ UNCHANGED << loopVars, renderVars, appVars >>
    \/ \E value \in MouthValues : SetMouth(value) /\ UNCHANGED << loopVars, renderVars, appVars >>
    \/ \E blender \in -1 .. STUDIO_MAX_BLENDERS, value \in BlendValues :
          SetBlending(blender, value) /\ UNCHANGED << loopVars, renderVars, appVars >>
    \/ \E sequence \in -2 .. NumSequences + SeqSlack - 1 :
          SetSequence(sequence) /\ UNCHANGED << playVars, loopVars, codecVars, renderVars, appVars >>

SpecCodec == CodecInit /\ [][CodecNext]_vars

----------------------------------------------------------------------------
(* The entity set up with the CounterStrikeBlender: blend values are set    *)
(* while the sequence changes                                               *)

CounterStrikeValues == { -270, -90, -45, 0, 45, 90, 180, 200 }

CounterStrikeInit ==
    /\ InitWith({ 1 })
    /\ _loopingMode = "AlwaysLoop"
    /\ _frameRate = 1

CounterStrikeNext ==
    \/ \E blender \in -1 .. STUDIO_MAX_BLENDERS, value \in CounterStrikeValues :
          CounterStrikeSetBlending(blender, value) /\ UNCHANGED << loopVars, renderVars, appVars >>
    \/ \E sequence \in -2 .. NumSequences + SeqSlack - 1 :
          SetSequence(sequence) /\ UNCHANGED << playVars, loopVars, codecVars, renderVars, appVars >>

SpecCounterStrike == CounterStrikeInit /\ [][CounterStrikeNext]_vars

----------------------------------------------------------------------------
(* The wrap scenario: the 30-frame sequence played as looping at rate 1 by  *)
(* AdvanceFrame(1.0, -1) calls, with SetFrame calls and the clock           *)

ThirtyModel == Len(Models)
ScenarioFrames == { 0, 1, 29 }

ScenarioInit ==
    /\ InitWith({ ThirtyModel })
    /\ _loopingMode \in { "AlwaysLoop", "UseSequenceSetting" }
    /\ _frameRate = 1

ScenarioNext ==
    \/ AdvanceFrame(ToUnits(1), NoMaximum) /\ UNCHANGED << playVars, loopVars, codecVars, renderVars, appVars >>
    \/ \E frame \in ScenarioFrames :
          SetFrame(ToUnits(frame)) /\ UNCHANGED << playVars, loopVars, codecVars, renderVars, appVars >>
    \/ Tick /\ UNCHANGED << playVars, loopVars, codecVars, renderVars, appVars >>

SpecScenario == ScenarioInit /\ [][ScenarioNext]_vars

----------------------------------------------------------------------------
(* The renderer: models are drawn in any order, with any flags, while the   *)
(* viewer moves                                                             *)

RenderInfo(model, pose, transparency) ==
    [Model |-> model, Pose |-> pose, Transparency |-> transparency,
     Origin |-> Vector(0, 0, 0)]
RenderInfos == { RenderInfo(NullModel, 0, 1), RenderInfo(1, 0, 1), RenderInfo(1, 1, 1),
                 RenderInfo(1, 0, 0), RenderInfo(2, 0, 1) }
DrawFlags == SUBSET { "NODRAW", "WIREFRAME_OVERLAY" }
ViewerOrigins == { Vector(0, -4, 0), Vector(3, -4, 1) }
ViewerRights == { Vector(1, 0, 0), Vector(0, 0, 1) }
ChromeNormals == { Vector(0, 1, 0), Vector(0, 0, 1) }
ChromeInfos == { RenderInfo(1, 0, 1), RenderInfo(2, 0, 1) }

RenderInit ==
    /\ InitWith({ NullModel })
    /\ _loopingMode = "AlwaysLoop"
    /\ _frameRate = 1

entityVars == << seqVars, playVars, loopVars, codecVars >>

RenderNext ==
    \/ Initialize /\ UNCHANGED << entityVars, appVars >>
    \/ \E renderInfo \in RenderInfos, flags \in DrawFlags :
          DrawModel(renderInfo, flags) /\ UNCHANGED << entityVars, appVars >>
    \/ \E renderInfo \in RenderInfos, iBone \in -1 .. 1 :
          DrawSingleBone(renderInfo, iBone) /\ UNCHANGED << entityVars, appVars >>
    \/ \E renderInfo \in RenderInfos, iAttachment \in -1 .. 1 :
          DrawSingleAttachment(renderInfo, iAttachment) /\ UNCHANGED << entityVars, appVars >>
    \/ \E renderInfo \in RenderInfos, hitboxIndex \in -1 .. 1 :
          DrawSingleHitbox(renderInfo, hitboxIndex) /\ UNCHANGED << entityVars, appVars >>

SpecRender == RenderInit /\ [][RenderNext]_vars

\* Chrome calls within the generation of a draw call, while the viewer moves
ChromeNext ==
    \/ \E origin \in ViewerOrigins : SetViewerOrigin(origin) /\ UNCHANGED << entityVars, appVars >>
    \/ \E right \in ViewerRights : SetViewerRight(right) /\ UNCHANGED << entityVars, appVars >>
    \/ \E renderInfo \in ChromeInfos :
          DrawModel(renderInfo, { }) /\ UNCHANGED << entityVars, appVars >>
    \/ \E bone \in AllBones, normal \in ChromeNormals :
          ChromeCall(bone, normal) /\ UNCHANGED << entityVars, appVars >>

SpecChrome == RenderInit /\ [][ChromeNext]_vars

\* Shadows: models are drawn at several origins with their shadows, as view
\* model or not, while the light moves
RenderInfoAt(renderInfo, origin) == [renderInfo EXCEPT !.Origin = origin]
ShadowInfos == { RenderInfoAt(RenderInfo(1, 0, 1), Vector(0, 0, 0)),
                 RenderInfoAt(RenderInfo(1, 1, 1), Vector(1, 0, 2)),
                 RenderInfoAt(RenderInfo(1, 0, 0), Vector(0, 0, 2)),
                 RenderInfoAt(RenderInfo(2, 0, 1), Vector(0, 0, 2)) }
ShadowFlags == { { }, { "DRAW_SHADOWS" }, { "DRAW_SHADOWS", "IS_VIEW_MODEL" },
                 { "DRAW_SHADOWS", "WIREFRAME_OVERLAY" },
                 { "DRAW_SHADOWS", "NODRAW" } }
LightVectors == { Vector(0, 0, -1), Vector(1, 2, -1), Vector(-1, 0, -2) }

ShadowNext ==
    \/ \E lightvec \in LightVectors : SetLightVector(lightvec) /\ UNCHANGED << entityVars, appVars >>
    \/ \E renderInfo \in ShadowInfos, flags \in ShadowFlags :
          DrawModel(renderInfo, flags) /\ UNCHANGED << entityVars, appVars >>

SpecShadow == RenderInit /\ [][ShadowNext]_vars

\* The scene: users initialise and shut down the scene while models are drawn
SceneNext ==
    \/ SceneInitialize /\ UNCHANGED << entityVars, windowVars >>
    \/ SceneShutdown /\ UNCHANGED << entityVars, windowVars >>
    \/ \E renderInfo \in ChromeInfos :
          /\ _initializeCount > 0
          /\ DrawModel(renderInfo, { })
          /\ UNCHANGED << entityVars, appVars >>
    \/ \E origin \in ViewerOrigins :
          SetViewerOrigin(origin) /\ UNCHANGED << entityVars, appVars >>

SpecScene == RenderInit /\ [][SceneNext]_vars

\* The window: assets are loaded, edited and closed, and the window is closed
WindowNext ==
    \/ \E asset \in AssetIds, loaded \in BOOLEAN :
          TryLoadAsset(asset, loaded) /\ UNCHANGED << entityVars, renderVars, sceneVars >>
    \/ \E index \in 0 .. MaxAssets - 1 :
          EditAsset(index) /\ UNCHANGED << entityVars, renderVars, sceneVars >>
    \/ \E index \in 0 .. Len(_assetTabs) - 1, verifyUnsavedChanges \in BOOLEAN :
          \E answers \in [{ GetAsset(index) } -> Answers],
             saves \in [{ GetAsset(index) } -> BOOLEAN] :
             /\ TryCloseAsset(index, verifyUnsavedChanges, answers, saves)
             /\ UNCHANGED << entityVars, renderVars, sceneVars >>
    \/ \E answers \in [OpenAssets -> Answers], saves \in [OpenAssets -> BOOLEAN] :
          closeEvent(answers, saves) /\ UNCHANGED << entityVars, renderVars, sceneVars >>

SpecWindow == RenderInit /\ [][WindowNext]_vars

----------------------------------------------------------------------------
(* Properties of the sequencer *)

AdvanceFrameCalled == call.op = "AdvanceFrame" /\ _editableModel # NullModel /\ HasValidSequence
DispatchCalled == call.op = "DispatchAnimEvents" /\ _editableModel # NullModel
SetSequenceCalled == call.op = "SetSequence"

InRange(frame, seq) == frame >= 0 /\ frame < LastFrame(seq)

\* C1: frame wrap invariant. An AdvanceFrame call on a sequence played as
\* looping with more than one frame, entered with the frame in [0, N-1)
\* (increments are never negative), leaves the frame in [0, N-1); on a
\* sequence with at most one frame the frame is 0 after every AdvanceFrame.
C1_FrameWrapInvariant ==
    AdvanceFrameCalled =>
        LET seq == SequenceDescriptor
        IN  /\ (seq.NumFrames > 1 /\ ShouldLoop(seq) /\ InRange(call.frame, seq))
                  => InRange(_frame, seq)
            /\ seq.NumFrames <= 1 => _frame = 0

\* an AdvanceFrame call whose increment carried the frame past the last frame
C1_Witness ==
    /\ AdvanceFrameCalled /\ call.ran
    /\ SequenceDescriptor.NumFrames > 1
    /\ ShouldLoop(SequenceDescriptor)
    /\ InRange(call.frame, SequenceDescriptor)
    /\ call.frame + call.arg > LastFrame(SequenceDescriptor)
    /\ _frame < call.frame

\* C3: non-looping clamp. On a sequence played as non-looping with more than
\* one frame, after AdvanceFrame the frame never exceeds N-1; it is exactly
\* N-1 when the advanced value reached or passed N-1; and a frame that was
\* N-1 before the call is N-1 after it.
C3_NonLoopingClamp ==
    (AdvanceFrameCalled /\ SequenceDescriptor.NumFrames > 1
                        /\ ~ShouldLoop(SequenceDescriptor)) =>
        LET last == LastFrame(SequenceDescriptor)
        IN  /\ _frame <= last
            /\ (call.ran /\ call.frame + call.arg >= last) => _frame = last
            /\ call.frame = last => _frame = last

\* an AdvanceFrame call that overshot the last frame and was clamped
C3_Witness ==
    /\ AdvanceFrameCalled /\ call.ran
    /\ SequenceDescriptor.NumFrames > 1
    /\ ~ShouldLoop(SequenceDescriptor)
    /\ call.frame < LastFrame(SequenceDescriptor)
    /\ call.frame + call.arg > LastFrame(SequenceDescriptor)
    /\ _frame = LastFrame(SequenceDescriptor)

\* C4: SetSequence(idx) with idx = -1 or 0 <= idx < number of sequences, on a
\* model with at least one sequence, sets _sequence to idx and resets _frame
\* and _lastEventCheck to 0.
C4_SetSequenceResets ==
    (SetSequenceCalled /\ NumSequences >= 1
        /\ (call.arg = NoSequence \/ (call.arg >= 0 /\ call.arg < NumSequences))) =>
        /\ _sequence = call.arg
        /\ _frame = 0
        /\ _lastEventCheck = 0

\* a SetSequence call that changed the sequence, the frame and the marker
C4_Witness ==
    /\ SetSequenceCalled /\ NumSequences >= 1
    /\ call.arg = NoSequence
    /\ call.sequence # NoSequence
    /\ call.frame # 0
    /\ call.lastEventCheck # 0
    /\ call.lastEventCheck # call.frame
    /\ _sequence = NoSequence

\* C5: SetSequence(idx) with idx < -1 or idx >= number of sequences, on a
\* model with at least one sequence, changes none of _sequence, _frame and
\* _lastEventCheck; so _sequence is always -1 or a valid index.
C5_SetSequenceRejects ==
    (_editableModel # NullModel /\ NumSequences >= 1) =>
        /\ _sequence = NoSequence \/ HasValidSequence
        /\ (SetSequenceCalled /\ (call.arg < NoSequence \/ call.arg >= NumSequences)) =>
              /\ _sequence = call.sequence
              /\ _frame = call.frame
              /\ _lastEventCheck = call.lastEventCheck

\* a rejected SetSequence call on a pose that a reset would have changed
C5_Witness ==
    /\ SetSequenceCalled /\ NumSequences >= 1
    /\ call.arg >= NumSequences
    /\ ~call.ran
    /\ _sequence > 0
    /\ _frame # 0
    /\ _lastEventCheck # 0

\* the events of seq whose frame lies in [start, end), as positions
EventsWithin(seq, start, end) ==
    { i \in 1 .. Len(seq.SortedEvents) :
        /\ ToUnits(seq.SortedEvents[i].Frame) >= start
        /\ ToUnits(seq.SortedEvents[i].Frame) < end }

HandledSet == { handled[k] : k \in 1 .. Len(handled) }
HandledAscending == \A k \in 1 .. Len(handled) - 1 : handled[k] < handled[k + 1]

\* C6: after every DispatchAnimEvents call on an entity with a model the
\* marker equals the current frame; a dispatch entered with the marker equal
\* to the frame (as the dispatch before it left them) handles no event on a
\* sequence with more than one frame.
C6_MarkerFollowsFrame ==
    DispatchCalled =>
        /\ _lastEventCheck = _frame
        /\ (HasValidSequence /\ SequenceDescriptor.NumFrames > 1
                /\ call.lastEventCheck = call.frame) => handled = << >>

\* a dispatch with an empty window while an event sits exactly on the frame
C6_Witness ==
    /\ DispatchCalled /\ HasValidSequence
    /\ SequenceDescriptor.NumFrames > 1
    /\ call.lastEventCheck = call.frame
    /\ call.frame > 0
    /\ \E i \in 1 .. Len(SequenceDescriptor.SortedEvents) :
          ToUnits(SequenceDescriptor.SortedEvents[i].Frame) = call.frame
    /\ handled = << >>

\* C7: dispatch window. On a sequence with more than one frame and without
\* the looping flag, DispatchAnimEvents(true) hands over exactly the events
\* with lastCheck <= Frame < currentFrame, each once and in list order; an
\* event whose Frame equals currentFrame is not handled.
C7_DispatchWindow ==
    (DispatchCalled /\ call.arg = 1 /\ HasValidSequence
        /\ SequenceDescriptor.NumFrames > 1 /\ ~SequenceDescriptor.Looping) =>
        /\ HandledSet = EventsWithin(SequenceDescriptor, call.lastEventCheck, _frame)
        /\ HandledAscending

\* a dispatch that handled several events and left out the one on the frame
C7_Witness ==
    /\ DispatchCalled /\ call.arg = 1 /\ HasValidSequence
    /\ SequenceDescriptor.NumFrames > 1 /\ ~SequenceDescriptor.Looping
    /\ Len(handled) >= 3
    /\ call.lastEventCheck > 0
    /\ \E i \in 1 .. Len(SequenceDescriptor.SortedEvents) :
          /\ ToUnits(SequenceDescriptor.SortedEvents[i].Frame) = _frame
          /\ i \notin HandledSet
    /\ \E i \in HandledSet :
          ToUnits(SequenceDescriptor.SortedEvents[i].Frame) = call.lastEventCheck

\* C8: client-only exclusion. DispatchAnimEvents(false) hands over no event
\* with EventId >= EVENT_CLIENT, and hands over every other event of the
\* window, also those that follow a skipped client event.
C8_ClientEventsExcluded ==
    (DispatchCalled /\ call.arg = 0 /\ HasValidSequence) =>
        LET seq   == SequenceDescriptor
            start == IF seq.NumFrames <= 1 THEN 0 ELSE call.lastEventCheck
            end   == IF seq.NumFrames <= 1 THEN ToUnits(1) ELSE _frame
        IN  /\ \A i \in HandledSet : ~IsClientEvent(seq.SortedEvents[i])
            /\ \A i \in EventsWithin(seq, start, end) :
                  ~IsClientEvent(seq.SortedEvents[i]) => i \in HandledSet

\* a dispatch that skipped a client event of the window and handled a later one
C8_Witness ==
    /\ DispatchCalled /\ call.arg = 0 /\ HasValidSequence
    /\ \E i \in EventsWithin(SequenceDescriptor, call.lastEventCheck, _frame) :
          /\ IsClientEvent(SequenceDescriptor.SortedEvents[i])
          /\ \E j \in HandledSet : j > i

SetFrameCalled == call.op = "SetFrame"

\* C18: SetFrame range. On a valid sequence with N = NumFrames > 1, after
\* SetFrame(f) for any f other than -1, negative f and f >= N - 1 included,
\* _frame lies in [0, N - 1); on a sequence with N <= 1 it is 0.
C18_SetFrameRange ==
    (SetFrameCalled /\ call.ran) =>
        IF SequenceDescriptor.NumFrames > 1
        THEN InRange(_frame, SequenceDescriptor)
        ELSE _frame = 0

\* C19: SetFrame frame condition. SetFrame(-1) changes no entity state at
\* all; SetFrame with any other value changes only _frame and _animTime and
\* leaves _sequence and _lastEventCheck as they were; SetFrame on an entity
\* with no model or no valid sequence changes nothing.
C19_SetFrameFrameCondition ==
    [][call'.op = "SetFrame" =>
          /\ UNCHANGED << _editableModel, _sequence, _lastEventCheck,
                          _loopingMode, _frameRate, codecVars >>
          /\ (call'.arg = ToUnits(NoFrame) \/ _editableModel = NullModel
                  \/ ~HasValidSequence) => UNCHANGED << _frame, _animTime >>]_vars

\* SetFrame(-1) on an entity that another frame value would have changed
C19_Witness ==
    /\ SetFrameCalled /\ ~call.ran
    /\ call.arg = ToUnits(NoFrame)
    /\ HasValidSequence /\ SequenceDescriptor.NumFrames > 1
    /\ _frame > 0
    /\ _lastEventCheck # 0
    /\ _animTime # time

\* C20: wrap detection. Whenever an AdvanceFrame call on a sequence with more
\* than one frame ends with _frame smaller than it was before the call,
\* _lastEventCheck is set to the new _frame minus the increment; in every
\* other AdvanceFrame call _lastEventCheck is left as it was, also when
\* frame + increment passed the end of the sequence but the wrapped frame is
\* not smaller than the old frame.
C20_WrapDetection ==
    call.op = "AdvanceFrame" =>
        IF call.ran /\ SequenceDescriptor.NumFrames > 1 /\ _frame < call.frame
        THEN _lastEventCheck = _frame - call.arg
        ELSE _lastEventCheck = call.lastEventCheck

\* an AdvanceFrame call that passed the end of the sequence and wrapped to a
\* frame that is not smaller than the old one
C20_Witness ==
    /\ AdvanceFrameCalled /\ call.ran
    /\ SequenceDescriptor.NumFrames > 1
    /\ ShouldLoop(SequenceDescriptor)
    /\ call.frame >= 0
    /\ call.frame + call.arg >= LastFrame(SequenceDescriptor)
    /\ _frame > call.frame
    /\ _lastEventCheck = call.lastEventCheck
    /\ _lastEventCheck # _frame - call.arg

AllowedWithinFirstFrame(seq, allowClientEvents) ==
    { i \in EventsWithin(seq, 0, ToUnits(1)) :
        allowClientEvents \/ ~IsClientEvent(seq.SortedEvents[i]) }

\* C22: after every DispatchAnimEvents call on a sequence with NumFrames <= 1
\* the handled events are exactly the allowed events whose Frame is in
\* [0, 1), each once and in list order, whatever the marker and the frame
\* were.
C22_SingleFrameWindow ==
    (DispatchCalled /\ HasValidSequence /\ SequenceDescriptor.NumFrames <= 1) =>
        /\ HandledSet = AllowedWithinFirstFrame(SequenceDescriptor, call.arg = 1)
        /\ HandledAscending

\* C28: DispatchAnimEvents terminates. Inside the while loop every
\* GetAnimationEvent call returns 0 or an index greater than the one it was
\* given, every loop that was entered is left, and the events handled so far
\* are in list order, each entry of SortedEvents at most once; the events
\* handled when the loop is left are those of the call taken as a whole.
C28_DispatchTerminates ==
    /\ [][(pc = "loop") => (dispatchIndex' = 0 \/ dispatchIndex' > dispatchIndex)]_vars
    /\ [](pc = "loop" => (HandledAscending /\ HandledSet \subseteq 1 .. Len(SequenceDescriptor.SortedEvents)))
    /\ []((pc = "idle" /\ DispatchCalled) =>
            handled = DispatchLoop(call.lastEventCheck, call.frame, 0, call.arg = 1))
    /\ ((pc = "loop") ~> (pc = "idle"))

\* inside a loop that has handled two events and is past the first entries
C28_Witness ==
    /\ pc = "loop"
    /\ Len(handled) >= 2
    /\ dispatchIndex = handled[Len(handled)]
    /\ dispatchIndex > 2

----------------------------------------------------------------------------
(* Properties of playback (SpecPlay) *)

\* how often an event at the given frame is due when the playback has
\* advanced by `units` from frame 0 of a loop of length `loop`: once for
\* every pass of the playback position over the event's frame
TimesDue(frame, units, loop) ==
    IF units > frame THEN (units - frame - 1) \div loop + 1 ELSE 0

\* C2: event dispatch completeness. On a looping sequence played from its
\* start by AdvanceFrame calls each followed by DispatchAnimEvents, after
\* every dispatch each event has been handled exactly once for each pass of
\* the playback over its frame: none is missed and none handled twice, also
\* on the step on which the frame wraps.
C2_DispatchCompleteness ==
    (call.op = "DispatchAnimEvents" /\ HasValidSequence
        /\ SequenceDescriptor.NumFrames > 1
        /\ SequenceDescriptor.Looping /\ ShouldLoop(SequenceDescriptor)) =>
        \A i \in DOMAIN fired :
            fired[i] = TimesDue(ToUnits(SequenceDescriptor.SortedEvents[i].Frame),
                                played, LastFrame(SequenceDescriptor))

----------------------------------------------------------------------------
(* Properties of the codec (SpecCodec) *)

CurrentBlendData(blender) == SequenceDescriptor.BlendData[blender + 1]
FoundController(index) == Models[_editableModel].BoneControllers[FindController(index)]

\* C9: blend channel absence. StandardBlender::CalculateBlend on a channel
\* whose BlendData Type is 0 yields no value (not 0), and SetBlending on such
\* a channel leaves _blending[blender] and _blendingValues[blender] as they were.
C9_BlendChannelAbsence ==
    (call.op = "SetBlending" /\ call.ran /\ CurrentBlendData(call.channel).Type = "none") =>
        /\ StandardCalculateBlend(SequenceDescriptor, call.channel, call.arg) = { }
        /\ _blending[call.channel] = call.byte
        /\ _blendingValues[call.channel] = call.value

\* SetBlending on an unused channel that still holds a non-zero byte and value
C9_Witness ==
    /\ call.op = "SetBlending" /\ call.ran
    /\ CurrentBlendData(call.channel).Type = "none"
    /\ call.byte # 0
    /\ call.value # 0
    /\ call.arg # call.value
    /\ _blending[call.channel] = call.byte

\* byte is max * (value - Start) / (End - Start) truncated and clamped to
\* 0 .. max, stated without division: the quotient is num / den with den > 0
LinearClamped(byte, value, channel, max) ==
    LET sign == IF channel.End > channel.Start THEN 1 ELSE -1
        num  == sign * max * (value - channel.Start)
        den  == sign * (channel.End - channel.Start)
    IN  /\ byte \in 0 .. max
        /\ num < den => byte = 0
        /\ num >= max * den => byte = max
        /\ (num >= den /\ num < max * den) =>
              (byte * den <= num /\ num < (byte + 1) * den)

\* C10: saturating encode. For a channel with Start # End, the byte stored by
\* SetController and by StandardBlender::CalculateBlend is the linear map
\* 255 * (value - Start) / (End - Start) of the value being mapped, clamped to
\* 0 .. 255, and the byte stored by SetMouth is the same map with 64; a value
\* beyond either end of the range gives 0 or the maximum, never a byte
\* wrapped around modulo 256.
C10_SaturatingEncode ==
    /\ (call.op = "SetController" /\ call.ran) =>
          LinearClamped(_controller[call.channel],
                        ControllerValue(call.arg, FoundController(call.channel)),
                        FoundController(call.channel), MaxSetting)
    /\ (call.op = "SetMouth" /\ call.ran) =>
          LinearClamped(_mouth,
                        ControllerValue(call.arg, FoundController(STUDIO_MOUTH_CONTROLLER)),
                        FoundController(STUDIO_MOUTH_CONTROLLER), MaxMouthSetting)
    /\ (call.op = "SetBlending" /\ call.ran
            /\ CurrentBlendData(call.channel).Type # "none") =>
          LinearClamped(_blending[call.channel],
                        BlendValue(call.arg, CurrentBlendData(call.channel)),
                        CurrentBlendData(call.channel), MaxSetting)

\* a SetController call whose unclamped setting does not fit a byte
C10_Witness ==
    /\ call.op = "SetController" /\ call.ran
    /\ EncodeSetting(ControllerValue(call.arg, FoundController(call.channel)),
                     FoundController(call.channel), MaxSetting) > 256
    /\ _controller[call.channel] = MaxSetting

\* the decoded value Start + (byte / max) * (End - Start) lies within
\* |End - Start| / max of value, stated without division
DecodesWithin(byte, value, channel, max) ==
    Abs(max * channel.Start + byte * (channel.End - channel.Start) - max * value)
        <= Abs(channel.End - channel.Start)

Between(value, channel) ==
    /\ value >= Min(channel.Start, channel.End)
    /\ value <= Max(channel.Start, channel.End)

\* C11: controller round trip. For every bone controller with Start # End,
\* rotational or not, with End < Start or not, and every input value between
\* Start and End, decoding the byte stored by SetController with the inverse
\* map Start + (byte / 255) * (End - Start) gives a value within
\* |End - Start| / 255 of the input value.
C11_ControllerRoundTrip ==
    (call.op = "SetController" /\ call.ran
        /\ FoundController(call.channel).Start # FoundController(call.channel).End
        /\ Between(call.arg, FoundController(call.channel))) =>
        DecodesWithin(_controller[call.channel], call.arg,
                      FoundController(call.channel), MaxSetting)

\* C17: rounding policy of the encoder. SetController truncates toward zero:
\* for the rotational controller with Start = 0, End = 90 and input 45 the
\* stored byte is 127, and in general the stored byte is
\* trunc(255 * (v - Start) / (End - Start)) for an adjusted value v inside
\* the range.
C17_TruncatingEncode ==
    (call.op = "SetController" /\ call.ran
        /\ FoundController(call.channel).Start # FoundController(call.channel).End) =>
        LET channel == FoundController(call.channel)
            v       == ControllerValue(call.arg, channel)
            byte    == _controller[call.channel]
            num     == Abs(MaxSetting * (v - channel.Start))
            den     == Abs(channel.End - channel.Start)
        IN  /\ Between(v, channel) => (byte * den <= num /\ num < (byte + 1) * den)
            /\ (IsRotational(channel) /\ channel.Start = 0 /\ channel.End = 90
                    /\ call.arg = 45) => byte = 127

\* SetController(0, 45) on the rotational controller from 0 to 90
C17_Witness ==
    /\ call.op = "SetController" /\ call.ran
    /\ IsRotational(FoundController(call.channel))
    /\ FoundController(call.channel).Start = 0
    /\ FoundController(call.channel).End = 90
    /\ call.arg = 45
    /\ _controller[call.channel] = 127

\* C23: one codec for controllers and blend channels. The byte that
\* SetBlending stores from StandardBlender::CalculateBlend for a channel with
\* a non-zero Type and Start # End is the byte SetController stores for a
\* bone controller with the same Type, Start and End and the same value,
\* wrapping ranges included.
C23_OneCodec ==
    (call.op = "SetBlending" /\ call.ran
        /\ CurrentBlendData(call.channel).Type # "none"
        /\ CurrentBlendData(call.channel).Start # CurrentBlendData(call.channel).End) =>
        _blending[call.channel]
            = ControllerSetting(call.arg, CurrentBlendData(call.channel), MaxSetting)

\* C24: alternate blend strategy. With the CounterStrikeBlender every
\* SetBlending call on channel X or Y of a valid sequence stores the value,
\* whatever the BlendData Type of the channel, and the byte it stores is
\* trunc((180 + v) / 360 * 255) for X and trunc((45 + v) / 90 * 255) for Y
\* clamped into 0 .. 255, never a byte wrapped around modulo 256.
C24_CounterStrikeBlend ==
    (call.op = "SetBlending" /\ call.ran) =>
        /\ _blendingValues[call.channel] = call.arg
        /\ _blending[call.channel]
              = ClampSetting(CounterStrikeSetting(call.channel, call.arg), MaxSetting)

\* no bone controller of the model has this Index
NoControllerHas(index) ==
    /\ _editableModel # NullModel
    /\ \A i \in 1 .. Len(Models[_editableModel].BoneControllers) :
          Models[_editableModel].BoneControllers[i].Index # index

\* C25: unknown controller channel. A SetController call for an Index that no
\* bone controller of the model has, and a SetMouth call on a model without a
\* controller of the mouth index, leave _controller, _controllerValues, _mouth
\* and _mouthValue as they were.
C25_UnknownChannel ==
    [][((call'.op = "SetController" /\ NoControllerHas(call'.channel))
            \/ (call'.op = "SetMouth" /\ NoControllerHas(STUDIO_MOUTH_CONTROLLER)))
       => UNCHANGED << _controller, _controllerValues, _mouth, _mouthValue >>]_vars

\* a SetController call for a channel without controller, on an entity that
\* holds a non-zero byte and value on another channel and has no mouth
\* controller
C25_Witness ==
    /\ call.op = "SetController"
    /\ call.channel \in 0 .. STUDIO_MAX_CONTROLLERS - 1
    /\ NoControllerHas(call.channel)
    /\ NoControllerHas(STUDIO_MOUTH_CONTROLLER)
    /\ \E c \in 0 .. STUDIO_MAX_CONTROLLERS - 1 :
          _controller[c] # 0 /\ _controllerValues[c] # 0

----------------------------------------------------------------------------
(* Properties of the renderer (SpecChrome, SpecRender) *)

\* the last two Chrome calls of this generation were for the same bone and normal
SameChromeCallTwice ==
    /\ Len(chromeLog) = 2
    /\ chromeLog[1].bone = chromeLog[2].bone
    /\ chromeLog[1].normal = chromeLog[2].normal

\* C12: chrome cache correctness. Two Chrome calls for the same bone and
\* normal within one draw generation (no change of _modelsDrawnCount between
\* them) return identical coordinates, and the second call does not compute
\* _chromeup and _chromeright again, also when the viewer origin or the
\* viewer right vector was changed between the two calls.
C12_ChromeCacheCorrect ==
    SameChromeCallTwice =>
        /\ chromeLog[2].chrome = chromeLog[1].chrome
        /\ ~chromeLog[2].recomputed

\* a second Chrome call made after the viewer moved: a basis computed for the
\* viewer as it is now would give other coordinates
C12_Witness ==
    /\ rcall.op = "Chrome"
    /\ SameChromeCallTwice
    /\ chromeLog[1].recomputed
    /\ LET basis == ChromeBasis(_bonetransform, _viewerOrigin, _viewerRight,
                                chromeLog[2].bone)
       IN  ChromeCoordinates(chromeLog[2].normal, basis.up, basis.right)
               # chromeLog[2].chrome

\* the basis of every bone stamped with the current generation was computed
\* by the latest draw call
StampedBasisIsCurrent ==
    \A bone \in AllBones :
        (_modelsDrawnCount > 0 /\ _chromeage[bone] = _modelsDrawnCount)
            => basisFrom[bone] = drawCalls

\* C13: the draw generation is monotonic. Over any sequence of Initialize,
\* DrawModel, DrawSingleBone, DrawSingleAttachment and DrawSingleHitbox calls
\* _modelsDrawnCount never decreases, it increases by exactly one in a
\* DrawModel call with a model and in no other call, and so a bone whose
\* chrome stamp equals the counter has a basis computed in the current draw
\* call.
C13_DrawGenerationMonotonic ==
    [][/\ _modelsDrawnCount' >= _modelsDrawnCount
       /\ _modelsDrawnCount' = _modelsDrawnCount + (drawCalls' - drawCalls)
       /\ StampedBasisIsCurrent']_vars

\* C14: null model. DrawModel called with renderInfo.Model == null returns 0
\* without drawing, and leaves _modelsDrawnCount, _drawnPolygonsCount, the
\* bone transforms and the chrome stamps as they were.
C14_NullModelDraw ==
    [][(rcall'.op = "DrawModel" /\ ~rcall'.ran) =>
          /\ rcall'.result = 0
          /\ drawn' = << >>
          /\ UNCHANGED << _modelsDrawnCount, _drawnPolygonsCount,
                          _bonetransform, _chromeage >>]_vars

\* a DrawModel call without a model on a renderer that has drawn before
C14_Witness ==
    /\ rcall.op = "DrawModel" /\ ~rcall.ran
    /\ _modelsDrawnCount > 0
    /\ _drawnPolygonsCount > 0
    /\ _bonetransform # NoTransforms
    /\ \E bone \in AllBones : _chromeage[bone] = _modelsDrawnCount

IsAdditive(mesh) == "STUDIO_NF_ADDITIVE" \in mesh.Flags
IsMasked(mesh) == "STUDIO_NF_MASKED" \in mesh.Flags /\ ~IsAdditive(mesh)
IsSolid(mesh) == ~IsMasked(mesh) /\ ~IsAdditive(mesh)
SameMode(a, b) ==
    /\ IsAdditive(a) = IsAdditive(b)
    /\ IsMasked(a) = IsMasked(b)

\* the meshes of the sub-model of the k-th DrawPoints call of the last DrawModel
DrawnMeshes(k) == StudioModels[rcall.model].Bodyparts[drawn[k].bodypart]

\* C15: mesh batch order. The mesh order DrawPoints hands to DrawMeshes is a
\* permutation of the sub-model's meshes in which every masked mesh precedes
\* every solid mesh, every additive mesh comes after all meshes that are not
\* additive, and two meshes of the same render mode keep their load order.
C15_MeshBatchOrder ==
    (rcall.op = "DrawModel" /\ rcall.ran) =>
        \A k \in DOMAIN drawn :
            LET meshes == DrawnMeshes(k)
                order  == drawn[k].order
            IN  /\ Len(order) = Len(meshes)
                /\ { order[p] : p \in DOMAIN order } = DOMAIN meshes
                /\ \A p, q \in DOMAIN order :
                      p < q =>
                        /\ ~(IsSolid(meshes[order[p]]) /\ IsMasked(meshes[order[q]]))
                        /\ ~(IsAdditive(meshes[order[p]]) /\ ~IsAdditive(meshes[order[q]]))
                        /\ SameMode(meshes[order[p]], meshes[order[q]])
                              => order[p] < order[q]

\* a sub-model with meshes of all three modes whose order was changed, with
\* two meshes of one mode that were not neighbours in load order
C15_Witness ==
    /\ rcall.op = "DrawModel" /\ rcall.ran
    /\ \E k \in DOMAIN drawn :
          LET meshes == DrawnMeshes(k)
              order  == drawn[k].order
          IN  /\ \E j \in DOMAIN meshes : IsMasked(meshes[j])
              /\ \E j \in DOMAIN meshes : IsAdditive(meshes[j])
              /\ IsSolid(meshes[1])
              /\ order[1] # 1
              /\ \E p \in 1 .. Len(order) - 1 :
                    /\ SameMode(meshes[order[p]], meshes[order[p + 1]])
                    /\ order[p + 1] - order[p] > 1

----------------------------------------------------------------------------
(* Properties of the wrap scenario (SpecScenario) *)

\* an AdvanceFrame(1.0, -1) step taken at frame 0 of the 30-frame sequence
ScenarioStep == call'.op = "AdvanceFrame" /\ _sequence = 0 /\ _frame = 0

\* C16 as stated: on the 30-frame, 30 FPS sequence played as looping at rate
\* 1.0 with the frame at 0, AdvanceFrame(1.0, -1) leaves _frame exactly 1.0.
C16_ScenarioAsStated ==
    [][ScenarioStep => _frame' = ToUnits(1)]_vars

\* C16: on the 30-frame, 30 FPS sequence played as looping at rate 1.0 with
\* the frame at 0, on an entity that has been updated before (_animTime is
\* not 0), AdvanceFrame(1.0, -1) leaves _frame exactly 1.0: 30 wrapped by 29.
\* On the first update the frame stays 0.
C16_ScenarioAfterUpdate ==
    [][ScenarioStep =>
          /\ _animTime # 0 => _frame' = ToUnits(1)
          /\ _animTime = 0 => _frame' = 0]_vars

\* the scenario call on an updated entity: the increment was 30 frames
C16_Witness ==
    /\ call.op = "AdvanceFrame" /\ call.ran
    /\ call.frame = 0
    /\ call.arg = ToUnits(SeqThirty.NumFrames)
    /\ _frame = ToUnits(1)

----------------------------------------------------------------------------
(* Properties of the shadows (SpecShadow) *)

IsShadow(primitive) == primitive.source = "InternalDrawShadows"
IsMeshRun(primitive) == primitive.source = "DrawMeshes"

\* the sub-model a primitive of the last DrawModel belongs to
PassOf(primitive) ==
    PointsPasses(rcall.model, drawInfo.renderInfo.Transparency, drawInfo.flags)[primitive.pass]

\* the transformed vertex that the k-th vertex of a primitive was read from
\* the command stream for
SourceVertex(primitive, k) ==
    LET bodypart == PassOf(primitive).bodypart
        cmds     == StudioModels[rcall.model].Bodyparts[bodypart][primitive.mesh].Triangles
    IN  XformVerts(StudioModels[rcall.model].Vertices[bodypart],
                   _bonetransform)[cmds[primitive.at + 1 + 4 * (k - 1)] + 1]

\* the triangles of all meshes of the sub-models drawn by the last DrawModel
RECURSIVE TrianglesOfPasses(_, _)
TrianglesOfPasses(passes, k) ==
    IF k > Len(passes) THEN 0
    ELSE LET meshes == StudioModels[rcall.model].Bodyparts[passes[k].bodypart]
             sum[j \in 0 .. Len(meshes)] ==
                 IF j = 0 THEN 0 ELSE sum[j - 1] + meshes[j].NumTriangles
         IN  sum[Len(meshes)] + TrianglesOfPasses(passes, k + 1)

ShadowsDrawn == rcall.op = "DrawModel" /\ rcall.ran /\ "DRAW_SHADOWS" \in drawInfo.flags

\* C26: shadow projection. In a DrawModel call with DRAW_SHADOWS, a model
\* flagged EF_NOSHADELIGHT gets no shadow vertex and no shadow polygons (the
\* call returns the polygons of its meshes only); for any other model every
\* shadow vertex has z = renderInfo.Origin.z + 1 and x, y equal to the
\* transformed vertex's x, y minus _lightvec.xy * (vertex.z - renderInfo.Origin.z),
\* also when IS_VIEW_MODEL moved the origin the model is drawn at.
C26_ShadowProjection ==
    ShadowsDrawn =>
        LET originZ == drawInfo.renderInfo.Origin[3]
            passes  == PointsPasses(rcall.model, drawInfo.renderInfo.Transparency,
                                    drawInfo.flags)
        IN  IF "EF_NOSHADELIGHT" \in StudioModels[rcall.model].Flags
            THEN /\ \A p \in DOMAIN primitives : ~IsShadow(primitives[p])
                 /\ rcall.result = TrianglesOfPasses(passes, 1)
            ELSE \A p \in DOMAIN primitives :
                    IsShadow(primitives[p]) =>
                        \A k \in DOMAIN primitives[p].vertices :
                            LET point  == primitives[p].vertices[k]
                                vertex == SourceVertex(primitives[p], k)
                            IN  /\ point[3] = originZ + 1
                                /\ point[1] = vertex[1] - _lightvec[1] * (vertex[3] - originZ)
                                /\ point[2] = vertex[2] - _lightvec[2] * (vertex[3] - originZ)

\* a view model drawn away from height 0 under a slanted light: a shadow
\* vertex lies beside the vertex it is the shadow of
C26_Witness ==
    /\ ShadowsDrawn
    /\ "IS_VIEW_MODEL" \in drawInfo.flags
    /\ "EF_NOSHADELIGHT" \notin StudioModels[rcall.model].Flags
    /\ drawInfo.renderInfo.Origin[3] # 0
    /\ drawInfo.origin # drawInfo.renderInfo.Origin
    /\ \E p \in DOMAIN primitives :
          /\ IsShadow(primitives[p])
          /\ \E k \in DOMAIN primitives[p].vertices :
                /\ primitives[p].vertices[k][1] # SourceVertex(primitives[p], k)[1]
                /\ primitives[p].vertices[k][2] # SourceVertex(primitives[p], k)[2]

----------------------------------------------------------------------------
(* Properties of the triangle command streams (SpecRender) *)

\* the command stream that a primitive of the last DrawModel was read from
StreamOf(primitive) ==
    StudioModels[rcall.model].Bodyparts[PassOf(primitive).bodypart][primitive.mesh].Triangles

SameMesh(p, q) ==
    /\ primitives[p].source = primitives[q].source
    /\ primitives[p].pass = primitives[q].pass
    /\ primitives[p].mesh = primitives[q].mesh

\* the position in the stream behind the vertices of a primitive
BehindRun(primitive) == primitive.at + 1 + 4 * Len(primitive.vertices)

\* the polygons (|count| - 2) of the primitives up to the p-th
RECURSIVE PolygonsOfRuns(_)
PolygonsOfRuns(p) ==
    IF p = 0 THEN 0
    ELSE (IF StreamOf(primitives[p])[primitives[p].at] < 0
          THEN -StreamOf(primitives[p])[primitives[p].at]
          ELSE StreamOf(primitives[p])[primitives[p].at]) - 2 + PolygonsOfRuns(p - 1)

\* C27: triangle command stream traversal. For every mesh that a DrawModel
\* call without shadows hands to DrawMeshes, the runs drawn are those of the
\* stream up to its first zero count: the first count is at the start, each
\* next count follows the |count| * 4 integers of the run before it, the
\* count behind the last run is 0, a negative count gives a fan and a
\* positive one a strip of |count| vertices, each vertex being the
\* transformed vertex named by the first of its four integers; the call
\* returns the sum of |count| - 2 over all runs.
C27_TriangleCommands ==
    (rcall.op = "DrawModel" /\ rcall.ran /\ "DRAW_SHADOWS" \notin drawInfo.flags) =>
        /\ \A p \in DOMAIN primitives :
              LET run   == primitives[p]
                  cmds  == StreamOf(run)
                  count == cmds[run.at]
              IN  /\ IsMeshRun(run)
                  /\ count # 0
                  /\ Len(run.vertices) = Abs(count)
                  /\ run.mode = (IF count < 0 THEN "GL_TRIANGLE_FAN" ELSE "GL_TRIANGLE_STRIP")
                  /\ \A k \in DOMAIN run.vertices : run.vertices[k] = SourceVertex(run, k)
                  /\ IF p > 1 /\ SameMesh(p - 1, p)
                     THEN run.at = BehindRun(primitives[p - 1])
                     ELSE run.at = 1
                  /\ (p = Len(primitives) \/ ~SameMesh(p, p + 1)) => cmds[BehindRun(run)] = 0
        /\ LET passes == PointsPasses(rcall.model, drawInfo.renderInfo.Transparency,
                                      drawInfo.flags)
           IN  \A k \in DOMAIN passes :
                  \A j \in DOMAIN StudioModels[rcall.model].Bodyparts[passes[k].bodypart] :
                     StudioModels[rcall.model].Bodyparts[passes[k].bodypart][j].Triangles[1] # 0
                        => \E p \in DOMAIN primitives :
                              primitives[p].pass = k /\ primitives[p].mesh = j
        /\ rcall.result = PolygonsOfRuns(Len(primitives))

\* a mesh drawn as a strip followed by a fan
C27_Witness ==
    /\ rcall.op = "DrawModel" /\ rcall.ran /\ "DRAW_SHADOWS" \notin drawInfo.flags
    /\ \E p \in DOMAIN primitives :
          /\ p > 1 /\ SameMesh(p - 1, p)
          /\ primitives[p - 1].mode = "GL_TRIANGLE_STRIP"
          /\ primitives[p].mode = "GL_TRIANGLE_FAN"
          /\ primitives[p].at > 1
          /\ Len(primitives[p].vertices) > 3
    /\ rcall.result > 0

----------------------------------------------------------------------------
(* Properties of the scene (SpecScene) *)

RendererInitializeRan == rendererRuns' = rendererRuns + 1
RendererShutdownRan == rendererRuns' = rendererRuns - 1

\* C29: scene initialisation is reference counted.  While Shutdown calls never
\* outnumber Initialize calls, the renderer's Initialize runs exactly on the
\* Scene::Initialize calls that take _initializeCount from 0 to 1 (every other
\* call leaves the renderer alone), the renderer's Shutdown runs exactly on the
\* Scene::Shutdown calls that take it from 1 to 0, and so the renderer is
\* initialised exactly once whenever the count is at least 1.
C29_ReferenceCounted ==
    /\ [](rendererRuns = IF _initializeCount >= 1 THEN 1 ELSE 0)
    /\ [][(_initializeCount' = _initializeCount + 1) =>
            IF _initializeCount = 0
            THEN /\ RendererInitializeRan
                 /\ rcall'.op = "Initialize"
                 /\ _modelsDrawnCount' = 0
                 /\ _drawnPolygonsCount' = 0
            ELSE UNCHANGED << renderVars, rendererRuns >>]_vars
    /\ [][(_initializeCount' = _initializeCount - 1) =>
            IF _initializeCount = 1
            THEN /\ RendererShutdownRan
                 /\ rcall'.op = "Shutdown"
            ELSE UNCHANGED << renderVars, rendererRuns >>]_vars
    /\ [][(_initializeCount' = _initializeCount) => (rendererRuns' = rendererRuns)]_vars

\* two users hold the scene, the renderer was initialised once and has drawn
C29_Witness ==
    /\ _initializeCount = 2
    /\ rendererRuns = 1
    /\ _modelsDrawnCount > 0
    /\ _drawnPolygonsCount > 0

----------------------------------------------------------------------------
(* Properties of the main window (SpecWindow) *)

\* the asset the last TryCloseAsset was about
ClosingAsset == wcall.tabs[wcall.index + 1]

\* an asset of the last call was dirty and the user neither discarded its
\* changes nor saved them successfully
CheckFails(asset) ==
    /\ ~wcall.clean[asset]
    /\ \/ wcall.answers[asset] = "Cancel"
       \/ wcall.answers[asset] = "Save" /\ ~wcall.saves[asset]

Kept(asset) ==
    /\ asset \in assets
    /\ asset \in _undoGroup
    /\ \E i \in 1 .. Len(_assetTabs) : _assetTabs[i] = asset

\* C30: no silent loss of unsaved work.  TryCloseAsset(index, true) removes
\* the tab and deletes the asset only if the undo stack of the asset was clean,
\* or the user chose Discard, or the user chose Save and the save succeeded;
\* when the user cancels or the save fails it returns false and the tab, the
\* registration of the undo stack, the asset and its unsaved changes are kept;
\* and closeEvent closes no asset and ignores the event when the check fails
\* for any open asset.
C30_NoSilentLoss ==
    /\ (wcall.op = "TryCloseAsset" /\ wcall.verify) =>
          /\ ~Kept(ClosingAsset) =>
                \/ wcall.clean[ClosingAsset]
                \/ wcall.answers[ClosingAsset] = "Discard"
                \/ wcall.answers[ClosingAsset] = "Save" /\ wcall.saves[ClosingAsset]
          /\ CheckFails(ClosingAsset) =>
                /\ wcall.result = FALSE
                /\ _assetTabs = wcall.tabs
                /\ Kept(ClosingAsset)
                /\ ~clean[ClosingAsset]
    /\ (wcall.op = "closeEvent" /\ \E i \in 1 .. Len(wcall.tabs) : CheckFails(wcall.tabs[i])) =>
          /\ event = "ignored"
          /\ _assetTabs = wcall.tabs
          /\ \A i \in 1 .. Len(wcall.tabs) : Kept(wcall.tabs[i])
          /\ \A i \in 1 .. Len(wcall.tabs) :
                CheckFails(wcall.tabs[i]) => ~clean[wcall.tabs[i]]

\* the user asked to close a tab with unsaved changes and chose Save, the save
\* failed, and the asset is still open with its changes
C30_Witness ==
    /\ wcall.op = "TryCloseAsset"
    /\ wcall.verify
    /\ wcall.answers[ClosingAsset] = "Save"
    /\ ~wcall.saves[ClosingAsset]
    /\ ~wcall.clean[ClosingAsset]
    /\ wcall.result = FALSE
    /\ Len(_assetTabs) = 2
    /\ Kept(ClosingAsset)
    /\ ~clean[ClosingAsset]

====
